---- MODULE Spec2Model ----
(***************************************************************************)
(* VaultDrop: document intake (internal/api), the asynq extraction worker  *)
(* (internal/worker), the Postgres document repository and the MinIO      *)
(* object store, modelled as a state machine.  Every call that crosses a  *)
(* process boundary (object store, database, queue) is one atomic step    *)
(* whose outcome (success or infrastructure error) is drawn with \E.      *)
(***************************************************************************)
EXTENDS Integers, Sequences, FiniteSets, TLC

VARIABLES
    docs,        \* documents table: id -> row (DOMAIN docs = ids that have a row)
    rawBucket,   \* raw bucket: object key -> bytes
    procBucket,  \* processed bucket: object key -> bytes
    tasks,       \* asynq queue: document id -> task (one task per accepted upload)
    reqs,        \* POST /documents requests: request -> position in handleUpload
    workers,     \* asynq worker goroutines: worker -> position in handleExtract
    hist,        \* per document only-observing history of the status writes
    faults,      \* infrastructure faults so far (failed calls, crashes, lost leases)
    base,        \* sequential scenario: the store before the runs being compared
    runs,        \* sequential scenario: the handler runs made since base
    signing,     \* signed URLs: the Signer, the clock, the last token and validation
    files,       \* legacy server: the MemoryStore, file id -> record
    queue,       \* legacy server: the Processor's job channel
    disk,        \* legacy server: the upload directory, path -> bytes
    server       \* the http.Server of a shutdown scenario: listener, goroutines, grace

vars == <<docs, rawBucket, procBucket, tasks, reqs, workers, hist, faults, base, runs, signing,
          files, queue, disk, server>>

----------------------------------------------------------------------------
(* Bounds of the model *)

MaxDocs == 1        \* number of POST /documents requests (and so of document ids)
MaxFaults == 1      \* infrastructure faults in one behaviour
MaxFileSize == 2    \* cfg.MaxFileSize, scaled down
MaxRuns == 3        \* sequential scenario: handler runs before the compared ones
BufSize == 2        \* len(buf) of persistTemp (32*1024), scaled down
MaxReads == 3       \* reads the bytes of a file part are split into
BodySlack == 1      \* the 1024 bytes MaxBytesReader allows above MaxFileSize, scaled down
MaxExpiry == 11     \* largest expiry (Unix seconds) signed
MaxLen == 2         \* length of the expires strings presented to Validate
MaxNow == 2         \* ticks of the clock
SniffLen == 1       \* the 512 bytes kept for http.DetectContentType, scaled down
SignedURLTTL == 1   \* cfg.SignedURLTTL in seconds, scaled down
MaxUploads == 5     \* uploads the legacy server receives
MaxInflight == 2    \* uploads the legacy server handles at the same time
MaxRequests == 2    \* requests the server receives in a shutdown scenario
PoolSize == 1       \* cfg.ProcessingPool of the legacy server, scaled down

(* Program constants *)

MaxRetry == 5       \* asynq.MaxRetry(5)
WorkerCount == 2    \* defaultWorkerCount
QueueFactor == 4    \* make(chan Job, workers*4)
ShutdownGrace == 5  \* context.WithTimeout(context.Background(), 5*time.Second)

WorkerIds == 1..WorkerCount

----------------------------------------------------------------------------
(* Values *)

Null == <<>>
Some(v) == <<v>>
COALESCE(a, b) == IF a # Null THEN a ELSE b

StatusQueued == "queued"
StatusProcessing == "processing"
StatusCompleted == "completed"
StatusFailed == "failed"

\* Kinds of file part content; the text each PDF holds is fixed by its bytes.
Contents == {"pdfText", "pdfEmpty", "pdfCorrupt", "plain"}

\* Mutant of DetectContentType: every sniffed prefix counts as a PDF.
DetectContentType_Lenient(c) == "application/pdf"

\* http.DetectContentType on the sniffed prefix: "%PDF-" gives application/pdf.
DetectContentType(c) ==
    IF c \in {"pdfText", "pdfEmpty", "pdfCorrupt"} THEN "application/pdf"
    ELSE "text/plain; charset=utf-8"

\* A text is the sequence of its lines; NoText is the empty string.
NoText == <<>>

\* pdfutil.ExtractText: a reader error for a corrupt file, else one line per
\* page that has content (the empty string when the document has no such page).
ExtractText(data) ==
    CASE data = "pdfText"  -> [err |-> Null, text |-> <<"hello">>]
      [] data = "pdfEmpty" -> [err |-> Null, text |-> NoText]
      [] OTHER             -> [err |-> Some("new pdf reader"), text |-> NoText]

\* Client-supplied file names of the part, split at the final dot as filepath.Ext does.
FileNames == {[stem |-> "upload", ext |-> ".pdf"], [stem |-> "", ext |-> ""]}

\* persistTemp: an empty file name becomes "upload.pdf".
DefaultFileName(n) ==
    IF n.stem = "" /\ n.ext = "" THEN [stem |-> "upload", ext |-> ".pdf"] ELSE n

\* fmt.Sprintf("uploads/%s/%s", docID, filepath.Base(filename))
ObjectKeyFor(docID, name) == [dir |-> docID, stem |-> name.stem, ext |-> name.ext]

\* strings.TrimSuffix(objectKey, filepath.Ext(objectKey)) + ".txt"
processedObjectKey(objectKey) == [objectKey EXCEPT !.ext = ".txt"]

----------------------------------------------------------------------------
(* Document repository *)

\* DocumentRepository.Create: INSERT of a queued row; the primary key rejects a
\* second row with the same id.
CreateRow(d, doc) ==
    d @@ (doc.ID :> [id |-> doc.ID, fileName |-> doc.FileName, objectKey |-> doc.ObjectKey,
                     processedKey |-> Null, status |-> StatusQueued, content |-> NoText,
                     errorMessage |-> Null])

\* Mutant of updateStatus: the content is appended to the stored one instead of
\* replacing it.
updateStatus_Appending(d, id, status, processedKey, content, errorMsg) ==
    IF id \in DOMAIN d
    THEN [d EXCEPT ![id] = [@ EXCEPT !.status = status,
                                     !.processedKey = COALESCE(processedKey, @),
                                     !.content = IF content # Null THEN @ \o content[1] ELSE @,
                                     !.errorMessage = errorMsg]]
    ELSE d

\* Mutant of updateStatus: an upsert; an id without a row gets one.
updateStatus_Upsert(d, id, status, processedKey, content, errorMsg) ==
    IF id \in DOMAIN d
    THEN [d EXCEPT ![id] = [@ EXCEPT !.status = status,
                                     !.processedKey = COALESCE(processedKey, @),
                                     !.content = IF content # Null THEN content[1] ELSE @,
                                     !.errorMessage = errorMsg]]
    ELSE d @@ (id :> [id |-> id, fileName |-> Null, objectKey |-> Null,
                      processedKey |-> processedKey, status |-> status,
                      content |-> IF content # Null THEN content[1] ELSE NoText,
                      errorMessage |-> errorMsg])

\* Mutant of updateStatus: processed_key and content are set without COALESCE.
updateStatus_Overwriting(d, id, status, processedKey, content, errorMsg) ==
    IF id \in DOMAIN d
    THEN [d EXCEPT ![id] = [@ EXCEPT !.status = status,
                                     !.processedKey = processedKey,
                                     !.content = IF content # Null THEN content[1] ELSE NoText,
                                     !.errorMessage = errorMsg]]
    ELSE d

\* DocumentRepository.updateStatus: one UPDATE ... WHERE id=$6; no row, no change.
updateStatus(d, id, status, processedKey, content, errorMsg) ==
    IF id \in DOMAIN d
    THEN [d EXCEPT ![id] = [@ EXCEPT !.status = status,
                                     !.processedKey = COALESCE(processedKey, @),
                                     !.content = IF content # Null THEN content[1] ELSE @,
                                     !.errorMessage = errorMsg]]
    ELSE d

MarkProcessing(d, id) == updateStatus(d, id, StatusProcessing, Null, Null, Null)
MarkFailed(d, id, msg) == updateStatus(d, id, StatusFailed, Null, Null, Some(msg))
\* Mutant of MarkCompleted: the row is marked without its content.
MarkCompleted_NoContent(d, id, processedKey, content) ==
    updateStatus(d, id, StatusCompleted, Some(processedKey), Null, Null)

\* Mutant of MarkCompleted: only the status is written.
MarkCompleted_StatusOnly(d, id, processedKey, content) ==
    updateStatus(d, id, StatusCompleted, Null, Null, Null)

MarkCompleted(d, id, processedKey, content) ==
    updateStatus(d, id, StatusCompleted, Some(processedKey), Some(content), Null)

\* Mutant of PutObject: a second put under a key appends to the object.
PutObject_Appending(bucket, key, bytes) ==
    IF key \in DOMAIN bucket THEN [bucket EXCEPT ![key] = @ \o bytes] ELSE bucket @@ (key :> bytes)

\* Mutant of PutObject: a second put under a key keeps the object and stores
\* the bytes beside it.
PutObject_Versioned(bucket, key, bytes) ==
    IF key \in DOMAIN bucket
    THEN bucket @@ ([key EXCEPT !.stem = "copy"] :> bytes)
    ELSE bucket @@ (key :> bytes)

\* Storage.UploadRaw / Storage.UploadProcessed: PutObject creates or overwrites.
PutObject(bucket, key, bytes) ==
    IF key \in DOMAIN bucket THEN [bucket EXCEPT ![key] = bytes] ELSE bucket @@ (key :> bytes)

----------------------------------------------------------------------------
(* Query surface: Server.handleDocumentText, Server.handleProcessedURL *)

\* DocumentRepository.Get: the row, or an error when there is none or when the
\* query fails (ok is whether the database answers).
Get(d, id, ok) ==
    IF ok /\ id \in DOMAIN d THEN [err |-> FALSE, doc |-> d[id]] ELSE [err |-> TRUE, doc |-> Null]

\* GET /documents/{id}/text: the answer's code and body.
handleDocumentText(d, id, ok) ==
    LET g == Get(d, id, ok) IN
    IF g.err THEN [code |-> 404, body |-> Null]
    ELSE IF g.doc.status # StatusCompleted \/ g.doc.content = NoText
         THEN [code |-> 202, body |-> Null]
    ELSE [code |-> 200, body |-> Some(g.doc.content)]

\* Storage.PresignProcessedURL: a URL to the object under key in the processed
\* bucket (signed was whether the client could sign).
PresignProcessedURL(key, signed) ==
    IF signed THEN [err |-> FALSE, url |-> Some(key)] ELSE [err |-> TRUE, url |-> Null]

\* GET /documents/{id}/processed-url: the answer's code and URL.
handleProcessedURL(d, id, ok, signed) ==
    LET g == Get(d, id, ok) IN
    IF g.err THEN [code |-> 404, url |-> Null]
    ELSE IF g.doc.processedKey = Null THEN [code |-> 404, url |-> Null]
    ELSE LET u == PresignProcessedURL(g.doc.processedKey[1], signed) IN
         IF u.err THEN [code |-> 500, url |-> Null] ELSE [code |-> 200, url |-> u.url]

----------------------------------------------------------------------------
(* Extraction worker: Processor.handleExtract, one step per remote call *)

Idle == [pc |-> "idle", doc |-> 0, text |-> NoText, err |-> Null]

\* The position a successful step leads to.
StepAfter(pc) ==
    CASE pc = "markProcessing" -> "download"
      [] pc = "download"       -> "upload"
      [] pc = "upload"         -> "markCompleted"
      [] pc = "markCompleted"  -> "return"
      [] OTHER                 -> "return"

\* failure := func(err) { _ = repo.MarkFailed(...); return err }: every error of
\* the handler goes through the closure.
Failure(l, msg) == [l EXCEPT !.pc = "failure", !.err = Some(msg)]

\* One step of handleExtract for payload p from local state l and store s
\* (s.docs, s.raw, s.proc); ok is whether the remote call of this step succeeds.
\* Result: the local state and store after the step, and the status written.
HandlerStep(l, p, s, ok) ==
    LET same == [l |-> l, docs |-> s.docs, proc |-> s.proc, wrote |-> Null]
        rowed == p.DocumentID \in DOMAIN s.docs
    IN
    CASE l.pc = "markProcessing" ->
            IF ok
            THEN [same EXCEPT !.l = [l EXCEPT !.pc = StepAfter(l.pc)],
                              !.docs = MarkProcessing(s.docs, p.DocumentID),
                              !.wrote = IF rowed THEN Some(StatusProcessing) ELSE Null]
            ELSE [same EXCEPT !.l = Failure(l, "update document")]
      [] l.pc = "download" ->
            IF ok /\ p.ObjectKey \in DOMAIN s.raw
            THEN LET r == ExtractText(s.raw[p.ObjectKey]) IN
                 IF r.err = Null
                 THEN [same EXCEPT !.l = [l EXCEPT !.pc = StepAfter(l.pc), !.text = r.text]]
                 ELSE [same EXCEPT !.l = Failure(l, r.err[1])]
            ELSE [same EXCEPT !.l = Failure(l, "read raw object")]
      [] l.pc = "upload" ->
            IF ok
            THEN [same EXCEPT !.l = [l EXCEPT !.pc = StepAfter(l.pc)],
                              !.proc = PutObject(s.proc, processedObjectKey(p.ObjectKey), l.text)]
            ELSE [same EXCEPT !.l = Failure(l, "upload processed object")]
      [] l.pc = "markCompleted" ->
            IF ok
            THEN [same EXCEPT !.l = [l EXCEPT !.pc = StepAfter(l.pc)],
                              !.docs = MarkCompleted(s.docs, p.DocumentID,
                                                     processedObjectKey(p.ObjectKey), l.text),
                              !.wrote = IF rowed THEN Some(StatusCompleted) ELSE Null]
            ELSE [same EXCEPT !.l = Failure(l, "update document")]
      [] l.pc = "failure" ->
            IF ok
            THEN [same EXCEPT !.l = [l EXCEPT !.pc = StepAfter(l.pc)],
                              !.docs = MarkFailed(s.docs, p.DocumentID, l.err[1]),
                              !.wrote = IF rowed THEN Some(StatusFailed) ELSE Null]
            ELSE [same EXCEPT !.l = [l EXCEPT !.pc = StepAfter(l.pc)]]
      [] OTHER -> same

----------------------------------------------------------------------------
(* Job queue: asynq client and server *)

\* queue.EnqueueExtract: NewTask(payload) with asynq.MaxRetry(5).
NewTask(payload) == [state |-> "pending", retried |-> 0, owner |-> 0, payload |-> payload]

\* A failed or lost execution: retried while retried < MaxRetry, archived after.
Retry(t) ==
    IF t.retried < MaxRetry
    THEN [t EXCEPT !.state = "pending", !.retried = @ + 1, !.owner = 0]
    ELSE [t EXCEPT !.state = "archived", !.owner = 0]

\* The handler returned err to the server for task t.
Resolve(t, err) == IF err = Null THEN [t EXCEPT !.state = "completed", !.owner = 0] ELSE Retry(t)

----------------------------------------------------------------------------
(* Intake gateway: Server.handleUpload *)

\* The outcomes of a remote call: it succeeds, or fails while faults remain.
Outcomes == IF faults < MaxFaults THEN BOOLEAN ELSE {TRUE}
Spend(ok) == IF ok THEN faults ELSE faults + 1

\* What a POST /documents request carries.
Uploads == [multipart : {"ok", "notMultipart", "noFilePart"}, name : FileNames,
            content : Contents, size : 0..(MaxFileSize + 1)]

\* The checks of handleUpload before any side effect: the reason of the 400
\* answer, or Null when the upload is valid.
ValidateUpload(in) ==
    CASE in.multipart = "notMultipart" -> Some("expecting multipart form")
      [] in.multipart = "noFilePart"   -> Some("EOF")
      [] in.size > MaxFileSize         -> Some("file exceeds limit")
      [] in.size = 0                   -> Some("empty file")
      [] DetectContentType(in.content) # "application/pdf" -> Some("only PDF files supported")
      [] OTHER -> Null

\* Mutant of UploadStepAfter: the job is enqueued before the row is created.
UploadStepAfter_EnqueueFirst(pc) ==
    CASE pc = "uploadToStorage" -> "enqueue"
      [] pc = "enqueue"         -> "create"
      [] OTHER                  -> "done"

\* The order of the side effects of handleUpload: the position after a
\* successful step.
UploadStepAfter(pc) ==
    CASE pc = "uploadToStorage" -> "create"
      [] pc = "create"          -> "enqueue"
      [] OTHER                  -> "done"

\* Mutant of UploadNext: a failed enqueue is not checked and 202 is answered.
UploadNext_EnqueueUnchecked(r, ok) ==
    IF ok \/ r.pc = "enqueue"
    THEN [r EXCEPT !.pc = UploadStepAfter(r.pc),
                   !.code = IF UploadStepAfter(r.pc) = "done" THEN 202 ELSE 0]
    ELSE [r EXCEPT !.pc = "done", !.code = 500]

\* Mutant of UploadNext: the error of Create is not checked.
UploadNext_CreateUnchecked(r, ok) ==
    IF ok \/ r.pc = "create"
    THEN [r EXCEPT !.pc = UploadStepAfter(r.pc),
                   !.code = IF UploadStepAfter(r.pc) = "done" THEN 202 ELSE 0]
    ELSE [r EXCEPT !.pc = "done", !.code = 500]

\* The position and answer after a step of handleUpload that succeeded or not.
UploadNext(r, ok) ==
    IF ok
    THEN [r EXCEPT !.pc = UploadStepAfter(r.pc),
                   !.code = IF UploadStepAfter(r.pc) = "done" THEN 202 ELSE 0]
    ELSE [r EXCEPT !.pc = "done", !.code = 500]

\* The request's document: docID := uuid.NewString(), a fresh id per request.
DocOf(i) == [ID |-> i, FileName |-> reqs[i].name, ObjectKey |-> ObjectKeyFor(i, reqs[i].name)]

PayloadOf(i) ==
    [DocumentID |-> DocOf(i).ID, ObjectKey |-> DocOf(i).ObjectKey, FileName |-> DocOf(i).FileName]

Receive ==
    /\ Len(reqs) < MaxDocs
    /\ \E in \in Uploads :
          reqs' = Append(reqs,
                    IF ValidateUpload(in) = Null
                    THEN [pc |-> "uploadToStorage", code |-> 0,
                          name |-> DefaultFileName(in.name), content |-> in.content]
                    ELSE [pc |-> "done", code |-> 400,
                          name |-> DefaultFileName(in.name), content |-> "plain"])
    /\ UNCHANGED <<docs, rawBucket, procBucket, tasks, workers, hist, faults, base, runs, signing, files, queue, disk, server>>

UploadToStorage(i) ==
    /\ reqs[i].pc = "uploadToStorage"
    /\ \E ok \in Outcomes :
          /\ faults' = Spend(ok)
          /\ reqs' = [reqs EXCEPT ![i] = UploadNext(@, ok)]
          /\ rawBucket' = IF ok THEN PutObject(rawBucket, DocOf(i).ObjectKey, reqs[i].content)
                          ELSE rawBucket
    /\ UNCHANGED <<docs, procBucket, tasks, workers, hist, base, runs, signing, files, queue, disk, server>>

Create(i) ==
    /\ reqs[i].pc = "create"
    /\ \E ok \in Outcomes :
          /\ faults' = Spend(ok)
          /\ LET done == ok /\ i \notin DOMAIN docs IN
             /\ reqs' = [reqs EXCEPT ![i] = UploadNext(@, done)]
             /\ docs' = IF done THEN CreateRow(docs, DocOf(i)) ELSE docs
             /\ hist' = IF done
                        THEN hist @@ (i :> [written |-> {StatusQueued}, during |-> {}])
                        ELSE hist
    /\ UNCHANGED <<rawBucket, procBucket, tasks, workers, base, runs, signing, files, queue, disk, server>>

\* Mutant of Enqueue: the task is stored although EnqueueExtract returns an error.
Enqueue_TaskOnFailure(i) ==
    /\ reqs[i].pc = "enqueue"
    /\ \E ok \in Outcomes :
          /\ faults' = Spend(ok)
          /\ reqs' = [reqs EXCEPT ![i] = UploadNext(@, ok)]
          /\ tasks' = tasks @@ (i :> NewTask(PayloadOf(i)))
    /\ UNCHANGED <<docs, rawBucket, procBucket, workers, hist, base, runs, signing, files, queue, disk, server>>

Enqueue(i) ==
    /\ reqs[i].pc = "enqueue"
    /\ \E ok \in Outcomes :
          /\ faults' = Spend(ok)
          /\ reqs' = [reqs EXCEPT ![i] = UploadNext(@, ok)]
          /\ tasks' = IF ok THEN tasks @@ (i :> NewTask(PayloadOf(i))) ELSE tasks
    /\ UNCHANGED <<docs, rawBucket, procBucket, workers, hist, base, runs, signing, files, queue, disk, server>>

----------------------------------------------------------------------------
(* Worker server: deliveries, handler steps, crashes *)

Terminal == {StatusCompleted, StatusFailed}

\* The deliveries of document d's job that are executing the handler.
Running(d) == {v \in WorkerIds : workers[v].pc # "idle" /\ workers[v].doc = d}

\* History of document d after worker w wrote a status: the statuses written so
\* far and, for a terminal status, the other deliveries running at that moment.
Observe(h, d, w, wrote) ==
    IF wrote = Null THEN h
    ELSE [h EXCEPT ![d] = [written |-> @.written \cup {wrote[1]},
                           during |-> IF wrote[1] \in Terminal THEN Running(d) \ {w} ELSE {}]]

\* Worker w's delivery has ended.
Forget(h, w) == [d \in DOMAIN h |-> [h[d] EXCEPT !.during = @ \ {w}]]

\* The server hands a pending task to a free worker slot (the first one: the
\* slots are interchangeable): handleExtract starts and decodes the payload.
Deliver(w, d) ==
    /\ workers[w].pc = "idle"
    /\ \A v \in WorkerIds : v < w => workers[v].pc # "idle"
    /\ tasks[d].state = "pending"
    /\ tasks' = [tasks EXCEPT ![d] = [@ EXCEPT !.state = "active", !.owner = w]]
    /\ workers' = [workers EXCEPT ![w] = [Idle EXCEPT !.pc = "markProcessing", !.doc = d]]
    /\ UNCHANGED <<docs, rawBucket, procBucket, reqs, hist, faults, base, runs, signing, files, queue, disk, server>>

\* Worker w executes the remote call at position pc of handleExtract.
Step(w, pc) ==
    /\ workers[w].pc = pc
    /\ \E ok \in Outcomes :
          /\ faults' = Spend(ok)
          /\ LET d == workers[w].doc
                 r == HandlerStep(workers[w], tasks[d].payload,
                                  [docs |-> docs, raw |-> rawBucket, proc |-> procBucket], ok)
             IN /\ workers' = [workers EXCEPT ![w] = r.l]
                /\ docs' = r.docs
                /\ procBucket' = r.proc
                /\ hist' = Observe(hist, d, w, r.wrote)
    /\ UNCHANGED <<rawBucket, tasks, reqs, base, runs, signing, files, queue, disk, server>>

MarkProcessingStep(w) == Step(w, "markProcessing")
DownloadStep(w) == Step(w, "download")
UploadProcessedStep(w) == Step(w, "upload")
MarkCompletedStep(w) == Step(w, "markCompleted")
FailureStep(w) == Step(w, "failure")

\* handleExtract returns: the server records the result if the worker still
\* holds the task's lease.
Return(w) ==
    /\ workers[w].pc = "return"
    /\ LET d == workers[w].doc IN
          tasks' = IF tasks[d].state = "active" /\ tasks[d].owner = w
                   THEN [tasks EXCEPT ![d] = Resolve(@, workers[w].err)]
                   ELSE tasks
    /\ workers' = [workers EXCEPT ![w] = Idle]
    /\ hist' = Forget(hist, w)
    /\ UNCHANGED <<docs, rawBucket, procBucket, reqs, faults, base, runs, signing, files, queue, disk, server>>

\* The worker process dies inside the handler; the server's recoverer puts the
\* task back (at-least-once delivery).
Crash(w) ==
    /\ faults < MaxFaults
    /\ faults' = faults + 1
    /\ workers[w].pc # "idle"
    /\ LET d == workers[w].doc IN
          tasks' = IF tasks[d].state = "active" /\ tasks[d].owner = w
                   THEN [tasks EXCEPT ![d] = Retry(@)]
                   ELSE tasks
    /\ workers' = [workers EXCEPT ![w] = Idle]
    /\ hist' = Forget(hist, w)
    /\ UNCHANGED <<docs, rawBucket, procBucket, reqs, base, runs, signing, files, queue, disk, server>>

\* The lease of an active task expires while its handler still runs: the task
\* is delivered again and two deliveries of the job run at once.
LeaseExpire(d) ==
    /\ faults < MaxFaults
    /\ faults' = faults + 1
    /\ tasks[d].state = "active"
    /\ workers[tasks[d].owner].pc # "return"
    /\ tasks' = [tasks EXCEPT ![d] = Retry(@)]
    /\ UNCHANGED <<docs, rawBucket, procBucket, reqs, workers, hist, base, runs, signing, files, queue, disk, server>>

----------------------------------------------------------------------------
(* The pipeline: API requests and workers interleaved *)

NoStore == [docs |-> <<>>, proc |-> <<>>, n |-> 0]

\* The pipeline of internal/api issues no signed URL of its own.
NoSigning == <<>>

\* Outside the shutdown scenario the server is up and is not looked at.
NoServer == <<>>

Init ==
    /\ docs = <<>>
    /\ rawBucket = <<>>
    /\ procBucket = <<>>
    /\ tasks = <<>>
    /\ reqs = <<>>
    /\ workers = [w \in WorkerIds |-> Idle]
    /\ hist = <<>>
    /\ faults = 0
    /\ base = NoStore
    /\ runs = <<>>
    /\ signing = NoSigning
    /\ files = <<>>
    /\ queue = <<>>
    /\ disk = <<>>
    /\ server = NoServer

Next ==
    \/ Receive
    \/ \E i \in DOMAIN reqs : UploadToStorage(i)
    \/ \E i \in DOMAIN reqs : Create(i)
    \/ \E i \in DOMAIN reqs : Enqueue(i)
    \/ \E w \in WorkerIds, d \in DOMAIN tasks : Deliver(w, d)
    \/ \E w \in WorkerIds : MarkProcessingStep(w)
    \/ \E w \in WorkerIds : DownloadStep(w)
    \/ \E w \in WorkerIds : UploadProcessedStep(w)
    \/ \E w \in WorkerIds : MarkCompletedStep(w)
    \/ \E w \in WorkerIds : FailureStep(w)
    \/ \E w \in WorkerIds : Return(w)
    \/ \E w \in WorkerIds : Crash(w)
    \/ \E d \in DOMAIN tasks : LeaseExpire(d)

Spec == Init /\ [][Next]_vars

\* What the worker server does on its own: hand out a pending task, run the
\* handler of a delivery one call after the other, record its result.
Work ==
    \/ \E w \in WorkerIds, d \in DOMAIN tasks : Deliver(w, d)
    \/ \E w \in WorkerIds : MarkProcessingStep(w)
    \/ \E w \in WorkerIds : DownloadStep(w)
    \/ \E w \in WorkerIds : UploadProcessedStep(w)
    \/ \E w \in WorkerIds : MarkCompletedStep(w)
    \/ \E w \in WorkerIds : FailureStep(w)
    \/ \E w \in WorkerIds : Return(w)

\* The pipeline while the worker process stays up: srv.Run serves the queue
\* until the process is stopped, so a delivery that can go on does go on. No
\* worker dies; remote calls may still fail and a lease may still expire.
NextLive ==
    \/ Receive
    \/ \E i \in DOMAIN reqs : UploadToStorage(i)
    \/ \E i \in DOMAIN reqs : Create(i)
    \/ \E i \in DOMAIN reqs : Enqueue(i)
    \/ Work
    \/ \E d \in DOMAIN tasks : LeaseExpire(d)

SpecLive == Init /\ [][NextLive]_vars /\ WF_vars(Work)

----------------------------------------------------------------------------
(* Sequential deliveries: one job, its handler runs one after another *)

\* Which remote calls of one handler run fail: the failing step of the handler
\* body (or none) and whether the MarkFailed of the failure closure succeeds.
Plans == [failAt : {"none", "markProcessing", "download", "upload", "markCompleted"},
          markFailedOk : BOOLEAN]

NoFault == [failAt |-> "none", markFailedOk |-> TRUE]

PlanOk(f, pc) == IF pc = "failure" THEN f.markFailedOk ELSE pc # f.failAt

\* handleExtract from local state l, step after step under plan f, until it
\* returns or is killed on reaching position stop: the store it leaves and the
\* error it holds.
RECURSIVE RunFrom(_, _, _, _, _)
RunFrom(l, p, s, f, stop) ==
    IF l.pc \in {"return", stop} THEN [docs |-> s.docs, proc |-> s.proc, err |-> l.err]
    ELSE LET r == HandlerStep(l, p, s, PlanOk(f, l.pc))
         IN RunFrom(r.l, p, [docs |-> r.docs, raw |-> s.raw, proc |-> r.proc], f, stop)

\* One whole execution of handleExtract on payload p.
RunHandler(p, s, f) == RunFrom([Idle EXCEPT !.pc = "markProcessing", !.doc = p.DocumentID],
                               p, s, f, "return")

\* An execution that the worker's death interrupts before the call at position k.
RunUntil(p, s, f, k) == RunFrom([Idle EXCEPT !.pc = "markProcessing", !.doc = p.DocumentID],
                                p, s, f, k)

\* The points after MarkProcessing where a run can be interrupted.
CrashPoints == {"download", "upload", "markCompleted", "failure", "return"}

TheDoc == 1
ThePayload == tasks[TheDoc].payload
Store == [docs |-> docs, raw |-> rawBucket, proc |-> procBucket]

\* The store after an upload was accepted: raw object, queued row, pending job.
InitSeq ==
    \E c \in {"pdfText", "pdfEmpty", "pdfCorrupt"} :
       LET name == DefaultFileName([stem |-> "", ext |-> ""])
           doc == [ID |-> TheDoc, FileName |-> name, ObjectKey |-> ObjectKeyFor(TheDoc, name)]
       IN /\ docs = CreateRow(<<>>, doc)
          /\ rawBucket = PutObject(<<>>, doc.ObjectKey, c)
          /\ procBucket = <<>>
          /\ tasks = (TheDoc :> NewTask([DocumentID |-> doc.ID, ObjectKey |-> doc.ObjectKey,
                                         FileName |-> doc.FileName]))
          /\ reqs = <<[pc |-> "done", code |-> 202, name |-> name, content |-> c]>>
          /\ workers = [w \in WorkerIds |-> Idle]
          /\ hist = (TheDoc :> [written |-> {StatusQueued}, during |-> {}])
          /\ faults = 0
          /\ base = [docs |-> CreateRow(<<>>, doc), proc |-> <<>>, n |-> 0]
          /\ runs = <<>>
          /\ signing = NoSigning
          /\ files = <<>>
          /\ queue = <<>>
          /\ disk = <<>>
          /\ server = NoServer

\* An earlier delivery of the job ran to its return, with any failures.
SeqPrepare ==
    /\ runs = <<>>
    /\ base.n < MaxRuns
    /\ \E f \in Plans :
          LET r == RunHandler(ThePayload, Store, f)
          IN /\ docs' = r.docs
             /\ procBucket' = r.proc
             /\ base' = [docs |-> r.docs, proc |-> r.proc, n |-> base.n + 1]
    /\ UNCHANGED <<rawBucket, tasks, reqs, workers, hist, faults, runs, signing, files, queue, disk, server>>

\* A delivery runs to its return under plan f.
SeqRun ==
    /\ Len(runs) < 2
    /\ \E f \in Plans :
          LET r == RunHandler(ThePayload, Store, f)
          IN /\ docs' = r.docs
             /\ procBucket' = r.proc
             /\ runs' = Append(runs, [kind |-> "run", at |-> "return", plan |-> f,
                                     err |-> r.err])
    /\ UNCHANGED <<rawBucket, tasks, reqs, workers, hist, faults, base, signing, files, queue, disk, server>>

\* A delivery is interrupted after MarkProcessing, before the call at k.
SeqCrash ==
    /\ runs = <<>>
    /\ \E k \in CrashPoints, f \in Plans :
          /\ f.failAt # "markProcessing"
          /\ LET r == RunUntil(ThePayload, Store, f, k)
             IN /\ docs' = r.docs
                /\ procBucket' = r.proc
                /\ runs' = <<[kind |-> "crash", at |-> k, plan |-> f, err |-> Null]>>
    /\ UNCHANGED <<rawBucket, tasks, reqs, workers, hist, faults, base, signing, files, queue, disk, server>>

NextSeq == SeqPrepare \/ SeqRun \/ SeqCrash

SpecSeq == InitSeq /\ [][NextSeq]_vars

----------------------------------------------------------------------------
(* Concurrent deliveries: one job, its lease lost while the handler runs, no  *)
(* remote call failing                                                        *)

\* Worker w executes the call at its position of handleExtract, and the call
\* succeeds.
PairStep(w) ==
    /\ workers[w].pc \in {"markProcessing", "download", "upload", "markCompleted", "failure"}
    /\ LET d == workers[w].doc
           r == HandlerStep(workers[w], tasks[d].payload,
                            [docs |-> docs, raw |-> rawBucket, proc |-> procBucket], TRUE)
       IN /\ workers' = [workers EXCEPT ![w] = r.l]
          /\ docs' = r.docs
          /\ procBucket' = r.proc
          /\ hist' = Observe(hist, d, w, r.wrote)
    /\ UNCHANGED <<rawBucket, tasks, reqs, faults, base, runs, signing, files, queue, disk, server>>

NextPair ==
    \/ \E w \in WorkerIds, d \in DOMAIN tasks : Deliver(w, d)
    \/ \E w \in WorkerIds : PairStep(w)
    \/ \E w \in WorkerIds : Return(w)
    \/ \E d \in DOMAIN tasks : LeaseExpire(d)

\* The store is the one an accepted upload leaves, the job waiting in the queue.
SpecPair == InitSeq /\ [][NextPair]_vars

----------------------------------------------------------------------------
(* Intake read by read: one POST /documents request through handleUpload and  *)
(* persistTemp, the file part arriving in chunks                              *)

\* How the bytes of the file part are split across the reads of part.Read.
ChunkSeqs == UNION {[1..n -> 1..BufSize] : n \in 0..MaxReads}

\* What the request carries: the kind of body, the part's file name and
\* content, its bytes as chunks, and the bytes of the body outside the file
\* (part headers and boundaries).
Streams == [multipart : {"ok", "notMultipart", "noFilePart"}, name : FileNames,
            content : Contents, chunks : ChunkSeqs, overhead : 0..(BodySlack + 1)]

RECURSIVE SumSeq(_)
SumSeq(q) == IF q = <<>> THEN 0 ELSE Head(q) + SumSeq(Tail(q))

\* http.MaxBytesReader(w, r.Body, s.cfg.MaxFileSize+1024)
BodyLimit == MaxFileSize + BodySlack

\* http.Error(w, reason, http.StatusBadRequest) and return.
Reject(r, why) == [r EXCEPT !.pc = "done", !.code = 400, !.reason = Some(why)]

\* r.MultipartReader() and nextFilePart(mr).
OpenNext(r) ==
    CASE r.multipart = "notMultipart" -> Reject(r, "expecting multipart form")
      [] r.multipart = "noFilePart"   -> Reject(r, "EOF")
      [] OTHER                        -> [r EXCEPT !.pc = "read"]

\* Mutant of ReadNext: the size is compared with the limit only at the end of
\* the part.
ReadNext_CheckAtEOF(r) ==
    LET n == IF r.pending = <<>> THEN 0 ELSE Head(r.pending)
        written == SumSeq(r.got) + n
        taken == [r EXCEPT !.got = Append(@, n), !.pending = Tail(@)]
    IN
    IF r.overhead + written > BodyLimit THEN Reject(r, "read file")
    ELSE IF n > 0 THEN taken
    ELSE IF written > MaxFileSize THEN Reject(r, "file exceeds limit")
    ELSE IF written = 0 THEN Reject(r, "empty file")
    ELSE IF DetectContentType(r.content) # "application/pdf"
         THEN Reject(r, "only PDF files supported")
    ELSE [r EXCEPT !.pc = "uploadToStorage", !.name = DefaultFileName(@)]

\* Mutant of ReadNext: a part of exactly MaxFileSize bytes is over the limit.
ReadNext_InclusiveLimit(r) ==
    LET n == IF r.pending = <<>> THEN 0 ELSE Head(r.pending)
        written == SumSeq(r.got) + n
        taken == [r EXCEPT !.got = Append(@, n), !.pending = Tail(@)]
    IN
    IF r.overhead + written > BodyLimit THEN Reject(r, "read file")
    ELSE IF n > 0
         THEN IF written >= MaxFileSize THEN Reject(taken, "file exceeds limit") ELSE taken
    ELSE IF written = 0 THEN Reject(r, "empty file")
    ELSE IF DetectContentType(r.content) # "application/pdf"
         THEN Reject(r, "only PDF files supported")
    ELSE [r EXCEPT !.pc = "uploadToStorage", !.name = DefaultFileName(@)]

\* One iteration of the loop of persistTemp: part.Read returns the next chunk,
\* io.EOF at the end of the part, or the error of the body limit.  After io.EOF:
\* the empty check, the sniff, the default file name, and handleUpload's check
\* of the content type.
ReadNext(r) ==
    LET n == IF r.pending = <<>> THEN 0 ELSE Head(r.pending)
        written == SumSeq(r.got) + n
        taken == [r EXCEPT !.got = Append(@, n), !.pending = Tail(@)]
    IN
    IF r.overhead + written > BodyLimit THEN Reject(r, "read file")
    ELSE IF n > 0
         THEN IF written > MaxFileSize THEN Reject(taken, "file exceeds limit") ELSE taken
    ELSE IF written = 0 THEN Reject(r, "empty file")
    ELSE IF DetectContentType(r.content) # "application/pdf"
         THEN Reject(r, "only PDF files supported")
    ELSE [r EXCEPT !.pc = "uploadToStorage", !.name = DefaultFileName(@)]

\* The request as it enters handleUpload.
Arriving(in) ==
    [pc |-> "open", code |-> 0, reason |-> Null, name |-> in.name, content |-> in.content,
     multipart |-> in.multipart, overhead |-> in.overhead, pending |-> in.chunks, got |-> <<>>]

InitUpload ==
    /\ \E in \in Streams : reqs = <<Arriving(in)>>
    /\ docs = <<>>
    /\ rawBucket = <<>>
    /\ procBucket = <<>>
    /\ tasks = <<>>
    /\ workers = [w \in WorkerIds |-> Idle]
    /\ hist = <<>>
    /\ faults = 0
    /\ base = NoStore
    /\ runs = <<>>
    /\ signing = NoSigning
    /\ files = <<>>
    /\ queue = <<>>
    /\ disk = <<>>
    /\ server = NoServer

OpenPart(i) ==
    /\ reqs[i].pc = "open"
    /\ reqs' = [reqs EXCEPT ![i] = OpenNext(@)]
    /\ UNCHANGED <<docs, rawBucket, procBucket, tasks, workers, hist, faults, base, runs, signing, files, queue, disk, server>>

ReadPart(i) ==
    /\ reqs[i].pc = "read"
    /\ reqs' = [reqs EXCEPT ![i] = ReadNext(@)]
    /\ UNCHANGED <<docs, rawBucket, procBucket, tasks, workers, hist, faults, base, runs, signing, files, queue, disk, server>>

NextUpload ==
    \/ \E i \in DOMAIN reqs : OpenPart(i)
    \/ \E i \in DOMAIN reqs : ReadPart(i)
    \/ \E i \in DOMAIN reqs : UploadToStorage(i)
    \/ \E i \in DOMAIN reqs : Create(i)
    \/ \E i \in DOMAIN reqs : Enqueue(i)

SpecUpload == InitUpload /\ [][NextUpload]_vars

----------------------------------------------------------------------------
(* Signed URL issuer: signing.Signer.  A string is the sequence of its        *)
(* characters.                                                                 *)

Digits == <<"0", "1", "2", "3", "4", "5", "6", "7", "8", "9">>
IsDigit(ch) == \E k \in 1..Len(Digits) : Digits[k] = ch
DigitValue(ch) == (CHOOSE k \in 1..Len(Digits) : Digits[k] = ch) - 1

\* The decimal digits of a natural number, most significant first.
RECURSIVE FormatNat(_)
FormatNat(n) ==
    IF n < Len(Digits) THEN <<Digits[n + 1]>>
    ELSE Append(FormatNat(n \div Len(Digits)), Digits[(n % Len(Digits)) + 1])

\* The verb %d of fmt.Sprintf and strconv.FormatInt(n, 10).
FormatInt(n) == IF n < 0 THEN <<"-">> \o FormatNat(0 - n) ELSE FormatNat(n)

RECURSIVE DigitsValue(_)
DigitsValue(q) ==
    IF q = <<>> THEN 0
    ELSE Len(Digits) * DigitsValue(SubSeq(q, 1, Len(q) - 1)) + DigitValue(q[Len(q)])

\* strconv.ParseInt(str, 10, 64): an optional sign, then one or more decimal
\* digits and nothing else.  (The strings of the model are too short to leave
\* the range of int64.)
ParseInt(str) ==
    LET signed == str # <<>> /\ str[1] \in {"+", "-"}
        body == IF signed THEN Tail(str) ELSE str
    IN
    IF body = <<>> \/ \E k \in 1..Len(body) : ~IsDigit(body[k])
    THEN [err |-> TRUE, val |-> 0]
    ELSE [err |-> FALSE,
          val |-> IF signed /\ str[1] = "-" THEN 0 - DigitsValue(body) ELSE DigitsValue(body)]

Secrets == {"topsecret", "other"}
NewSigner(secret) == [secret |-> secret]

\* hex(HMAC-SHA256(key, msg)): a value that is equal for equal key and message
\* and different otherwise.
HexHmacSha256(key, msg) == [key |-> key, msg |-> msg]

\* Mutant of Sign: the payload has no separator between id and expiry.
Sign_NoSeparator(s, fileID, expiresUnix) ==
    HexHmacSha256(s.secret, fileID \o FormatInt(expiresUnix))

\* Mutant of Sign: the time of the call is part of the payload.
Sign_Timestamped(s, fileID, expiresUnix) ==
    HexHmacSha256(s.secret, fileID \o <<":">> \o FormatInt(expiresUnix)
                            \o <<":">> \o FormatInt(signing.now))

\* Signer.Sign: the MAC of fmt.Sprintf("%s:%d", fileID, expiresUnix).
Sign(s, fileID, expiresUnix) ==
    HexHmacSha256(s.secret, fileID \o <<":">> \o FormatInt(expiresUnix))

\* Signer.Validate: false when expires does not parse, else whether signature
\* equals the signature of fileID and the parsed expiry.
Validate(s, fileID, expires, signature) ==
    LET p == ParseInt(expires) IN
    IF p.err THEN FALSE ELSE Sign(s, fileID, p.val) = signature

\* The inputs of the calls.
FileIDs == {<<"f">>, <<"f", "1">>}
Expiries == (0 - 1)..MaxExpiry
Alphabet == {"0", "1", "+", "-", "x"}
ExpiresStrings == UNION {[1..n -> Alphabet] : n \in 0..MaxLen}

\* The last token issued and the last validation made.
Token == signing.token[1]
Check == signing.check[1]

\* A signer that holds another secret.
OtherSigner == NewSigner(CHOOSE k \in Secrets : k # signing.signer.secret)

\* The signatures a caller presents with the token issued for id and exp: the
\* issued one, the one of another id, one made with another secret.
Signatures ==
    {Token.sig, Sign(OtherSigner, Token.id, Token.exp)}
        \cup {Sign(signing.signer, id, Token.exp) : id \in FileIDs}

InitSign ==
    /\ \E k \in Secrets :
          signing = [signer |-> NewSigner(k), now |-> 0, token |-> Null, check |-> Null]
    /\ docs = <<>>
    /\ rawBucket = <<>>
    /\ procBucket = <<>>
    /\ tasks = <<>>
    /\ reqs = <<>>
    /\ workers = [w \in WorkerIds |-> Idle]
    /\ hist = <<>>
    /\ faults = 0
    /\ base = NoStore
    /\ runs = <<>>
    /\ files = <<>>
    /\ queue = <<>>
    /\ disk = <<>>
    /\ server = NoServer

\* A call of Sign: the token it issues replaces the last one.
SignCall ==
    /\ \E id \in FileIDs, exp \in Expiries :
          signing' = [signing EXCEPT
                        !.token = Some([id |-> id, exp |-> exp,
                                        sig |-> Sign(signing.signer, id, exp)]),
                        !.check = Null]
    /\ UNCHANGED <<docs, rawBucket, procBucket, tasks, reqs, workers, hist, faults, base, runs, files, queue, disk, server>>

\* A call of Validate by a holder of the last token.
ValidateCall ==
    /\ signing.token # Null
    /\ signing.check = Null
    /\ \E id \in FileIDs, expires \in ExpiresStrings \cup {FormatInt(Token.exp)},
          sig \in Signatures :
          signing' = [signing EXCEPT
                        !.check = Some([id |-> id, expires |-> expires, sig |-> sig,
                                        at |-> signing.now,
                                        ok |-> Validate(signing.signer, id, expires, sig)])]
    /\ UNCHANGED <<docs, rawBucket, procBucket, tasks, reqs, workers, hist, faults, base, runs, files, queue, disk, server>>

\* Time passes between the calls.
Tick ==
    /\ signing.now < MaxNow
    /\ signing.check = Null
    /\ signing' = [signing EXCEPT !.now = @ + 1]
    /\ UNCHANGED <<docs, rawBucket, procBucket, tasks, reqs, workers, hist, faults, base, runs, files, queue, disk, server>>

NextSign == SignCall \/ ValidateCall \/ Tick

SpecSign == InitSign /\ [][NextSign]_vars

----------------------------------------------------------------------------
(* Legacy server: signed download links (handleSignedURL, handleDownload) *)

FileStatusUploaded == "uploaded"
FileStatusScanned == "scanned"
FileStatusQueued == "queued"
FileStatusProcessing == "processing"
FileStatusComplete == "complete"
FileStatusRejected == "rejected"
FileStatusFailed == "failed"

\* filepath.Join(s.uploadDir, fileID)
PathOf(fileID) == [dir |-> "uploads", name |-> fileID]

\* model.FileRecord as persistPart builds it.
FileRecord(fileID) ==
    [ID |-> fileID, Path |-> PathOf(fileID), Status |-> FileStatusUploaded, Message |-> ""]

\* MemoryStore.Save: the record is stored under its ID.
Save(store, record) ==
    IF record.ID \in DOMAIN store THEN [store EXCEPT ![record.ID] = record]
    ELSE store @@ (record.ID :> record)

\* MemoryStore.UpdateStatus: status and message of a stored record; an unknown
\* id is an error and changes nothing.
UpdateStatus(store, id, status, msg) ==
    IF id \in DOMAIN store
    THEN [store EXCEPT ![id] = [@ EXCEPT !.Status = status, !.Message = msg]]
    ELSE store

\* MemoryStore.Get: the record, or ErrNotFound.
MemoryStoreGet(store, id) ==
    IF id \in DOMAIN store THEN [err |-> FALSE, record |-> store[id]]
    ELSE [err |-> TRUE, record |-> Null]

\* handleSignedURL: 404 for an unknown file; else the link's parameters, the
\* expiry being the time of the call plus the configured TTL.
handleSignedURL(store, signer, now, id) ==
    IF MemoryStoreGet(store, id).err THEN [code |-> 404, token |-> Null]
    ELSE LET expiry == now + SignedURLTTL IN
         [code |-> 200,
          token |-> Some([id |-> id, exp |-> expiry, sig |-> Sign(signer, id, expiry)])]

\* An absent query parameter reads as the empty string.
Absent == <<>>

\* Mutant of handleDownload: the expiry is not compared with the clock.
handleDownload_NoExpiry(store, dsk, signer, now, q) ==
    LET refuse(c) == [code |-> c, body |-> Null]
        p == ParseInt(q.expires)
    IN
    IF q.file = Absent \/ q.expires = Absent \/ q.signature = Absent THEN refuse(400)
    ELSE IF p.err THEN refuse(400)
    ELSE IF ~Validate(signer, q.file, q.expires, q.signature) THEN refuse(401)
    ELSE IF MemoryStoreGet(store, q.file).err THEN refuse(404)
    ELSE IF store[q.file].Path \notin DOMAIN dsk THEN refuse(500)
    ELSE [code |-> 200, body |-> Some(dsk[store[q.file].Path])]

\* handleDownload for a GET with query q at time now: the answer's code and the
\* bytes served.
handleDownload(store, dsk, signer, now, q) ==
    LET refuse(c) == [code |-> c, body |-> Null]
        p == ParseInt(q.expires)
    IN
    IF q.file = Absent \/ q.expires = Absent \/ q.signature = Absent THEN refuse(400)
    ELSE IF p.err THEN refuse(400)
    ELSE IF p.val < now THEN refuse(401)
    ELSE IF ~Validate(signer, q.file, q.expires, q.signature) THEN refuse(401)
    ELSE IF MemoryStoreGet(store, q.file).err THEN refuse(404)
    ELSE IF store[q.file].Path \notin DOMAIN dsk THEN refuse(500)
    ELSE [code |-> 200, body |-> Some(dsk[store[q.file].Path])]

\* The file the store holds: processed and on disk, or rejected by the scan
\* and removed from disk (its record stays).
StoredFile == <<"f">>

InitDownload ==
    /\ \E k \in Secrets :
          signing = [signer |-> NewSigner(k), now |-> 0, token |-> Null, check |-> Null]
    /\ \E kept \in BOOLEAN :
          /\ files = UpdateStatus(Save(<<>>, FileRecord(StoredFile)), StoredFile,
                                   IF kept THEN FileStatusComplete ELSE FileStatusRejected,
                                   IF kept THEN "processing finished"
                                   ELSE "malware signature detected")
          /\ disk = IF kept THEN (PathOf(StoredFile) :> "bytes") ELSE <<>>
    /\ docs = <<>>
    /\ rawBucket = <<>>
    /\ procBucket = <<>>
    /\ tasks = <<>>
    /\ reqs = <<>>
    /\ workers = [w \in WorkerIds |-> Idle]
    /\ hist = <<>>
    /\ faults = 0
    /\ base = NoStore
    /\ runs = <<>>
    /\ queue = <<>>
    /\ server = NoServer

\* A client asks for the link of a stored file; the link replaces the last one
\* and the last download is forgotten. (For an unknown file the answer is 404
\* and nothing changes.)
SignedURLCall ==
    /\ \E id \in FileIDs :
          LET a == handleSignedURL(files, signing.signer, signing.now, id) IN
          /\ a.code = 200
          /\ signing' = [signing EXCEPT !.token = a.token]
    /\ reqs' = <<>>
    /\ UNCHANGED <<docs, rawBucket, procBucket, tasks, workers, hist, faults, base, runs, files, queue, disk, server>>

\* The queries a holder of the last link sends to GET /download.
Queries ==
    [file : FileIDs \cup {Absent},
     expires : ExpiresStrings \cup {FormatInt(Token.exp)},
     signature : Signatures \cup {Absent}]

\* GET /download, answered at once.
DownloadCall ==
    /\ signing.token # Null
    /\ reqs = <<>>
    /\ \E q \in Queries :
          LET a == handleDownload(files, disk, signing.signer, signing.now, q) IN
          reqs' = <<[file |-> q.file, expires |-> q.expires, signature |-> q.signature,
                     at |-> signing.now, code |-> a.code, body |-> a.body]>>
    /\ UNCHANGED <<docs, rawBucket, procBucket, tasks, workers, hist, faults, base, runs, signing, files, queue, disk, server>>

NextDownload == SignedURLCall \/ DownloadCall \/ Tick

SpecDownload == InitDownload /\ [][NextDownload]_vars

----------------------------------------------------------------------------
(* Legacy server: the in-memory pipeline (handleUpload, Processor) *)

\* processing.New: the job channel holds workers*4 jobs.
QueueCap == Cardinality(DOMAIN workers) * QueueFactor

PoolIds == 1..PoolSize

\* What a file part holds: bytes the scanner passes, bytes with the word
\* "virus", or nothing.
PartBytes == {"clean", "virus", "empty"}

\* persistPart: the part is written to a new file under the upload directory
\* and its record saved with status uploaded; a part that is refused (here: an
\* empty one) leaves no file and no record.
persistPart(store, dsk, fileID, bytes) ==
    IF bytes = "empty"
    THEN [err |-> Some("empty file"), files |-> store, disk |-> dsk]
    ELSE [err |-> Null, files |-> Save(store, FileRecord(fileID)),
          disk |-> IF PathOf(fileID) \in DOMAIN dsk
                   THEN [dsk EXCEPT ![PathOf(fileID)] = bytes]
                   ELSE dsk @@ (PathOf(fileID) :> bytes)]

\* scan: the file is read back; an unreadable file and one that holds "virus"
\* are errors.
scan(dsk, record) ==
    IF record.Path \notin DOMAIN dsk THEN Some("read file")
    ELSE IF dsk[record.Path] = "virus" THEN Some("malware signature detected")
    ELSE Null

\* os.Remove(path)
Remove(dsk, path) == [x \in DOMAIN dsk \ {path} |-> dsk[x]]

Job(fileID) == [FileID |-> fileID]

\* Mutant of Submit: the channel has no capacity limit.
Submit_Unbounded(q, store, job) == [queue |-> Append(q, job), files |-> store]

\* Mutant of Submit: a job that finds the channel full is dropped without a
\* word.
Submit_SilentDrop(q, store, job) ==
    IF Len(q) < QueueCap
    THEN [queue |-> Append(q, job), files |-> store]
    ELSE [queue |-> q, files |-> store]

\* Processor.Submit: select { case p.queue <- job: default: ... }: the job is
\* sent when the channel has room; else it is dropped and the file marked
\* failed.
Submit(q, store, job) ==
    IF Len(q) < QueueCap
    THEN [queue |-> Append(q, job), files |-> store]
    ELSE [queue |-> q,
          files |-> UpdateStatus(store, job.FileID, FileStatusFailed, "processing queue full")]

\* A worker goroutine between two jobs.
Waiting == [pc |-> "receive", job |-> Null]

InitLegacy ==
    /\ files = <<>>
    /\ disk = <<>>
    /\ queue = <<>>
    /\ reqs = <<>>
    /\ workers = [w \in PoolIds |-> Waiting]
    /\ docs = <<>>
    /\ rawBucket = <<>>
    /\ procBucket = <<>>
    /\ tasks = <<>>
    /\ hist = <<>>
    /\ faults = 0
    /\ base = NoStore
    /\ runs = <<>>
    /\ signing = NoSigning
    /\ server = NoServer

\* POST /upload arrives and handleUpload runs up to the end of persistPart: the
\* request is answered 400 or goes on to the scan. The file's id is fresh.
PersistPart ==
    /\ Len(reqs) < MaxUploads
    /\ Cardinality({i \in DOMAIN reqs : reqs[i].pc # "done"}) < MaxInflight
    /\ \E bytes \in PartBytes :
          LET fileID == Len(reqs) + 1
              r == persistPart(files, disk, fileID, bytes)
          IN /\ files' = r.files
             /\ disk' = r.disk
             /\ reqs' = Append(reqs, IF r.err # Null
                                     THEN [pc |-> "done", file |-> fileID, code |-> 400,
                                           submitted |-> FALSE]
                                     ELSE [pc |-> "scan", file |-> fileID, code |-> 0,
                                           submitted |-> FALSE])
    /\ UNCHANGED <<docs, rawBucket, procBucket, tasks, workers, hist, faults, base, runs, signing, queue, server>>

\* Mutant of Scan: the handler goes on after a rejection.
Scan_NoReturn(i) ==
    /\ reqs[i].pc = "scan"
    /\ LET f == reqs[i].file
           err == scan(disk, files[f])
       IN IF err # Null
          THEN /\ disk' = Remove(disk, files[f].Path)
               /\ files' = UpdateStatus(files, f, FileStatusRejected, err[1])
               /\ reqs' = [reqs EXCEPT ![i] = [@ EXCEPT !.pc = "markQueued"]]
          ELSE /\ disk' = disk
               /\ files' = UpdateStatus(files, f, FileStatusScanned, "scan clean")
               /\ reqs' = [reqs EXCEPT ![i] = [@ EXCEPT !.pc = "markQueued"]]
    /\ UNCHANGED <<docs, rawBucket, procBucket, tasks, workers, hist, faults, base, runs, signing, queue, server>>

\* handleUpload scans the saved file: a rejected file is removed from disk,
\* marked rejected and answered 400; a clean one is marked scanned.
Scan(i) ==
    /\ reqs[i].pc = "scan"
    /\ LET f == reqs[i].file
           err == scan(disk, files[f])
       IN IF err # Null
          THEN /\ disk' = Remove(disk, files[f].Path)
               /\ files' = UpdateStatus(files, f, FileStatusRejected, err[1])
               /\ reqs' = [reqs EXCEPT ![i] = [@ EXCEPT !.pc = "done", !.code = 400]]
          ELSE /\ disk' = disk
               /\ files' = UpdateStatus(files, f, FileStatusScanned, "scan clean")
               /\ reqs' = [reqs EXCEPT ![i] = [@ EXCEPT !.pc = "markQueued"]]
    /\ UNCHANGED <<docs, rawBucket, procBucket, tasks, workers, hist, faults, base, runs, signing, queue, server>>

\* handleUpload marks the file queued.
MarkQueued(i) ==
    /\ reqs[i].pc = "markQueued"
    /\ files' = UpdateStatus(files, reqs[i].file, FileStatusQueued, "queued for processing")
    /\ reqs' = [reqs EXCEPT ![i] = [@ EXCEPT !.pc = "submit"]]
    /\ UNCHANGED <<docs, rawBucket, procBucket, tasks, workers, hist, faults, base, runs, signing, queue, disk, server>>

\* handleUpload submits the job and answers 202, whatever became of the job.
SubmitJob(i) ==
    /\ reqs[i].pc = "submit"
    /\ LET r == Submit(queue, files, Job(reqs[i].file)) IN
          /\ queue' = r.queue
          /\ files' = r.files
    /\ reqs' = [reqs EXCEPT ![i] = [@ EXCEPT !.pc = "done", !.code = 202, !.submitted = TRUE]]
    /\ UNCHANGED <<docs, rawBucket, procBucket, tasks, workers, hist, faults, base, runs, signing, disk, server>>

\* Mutant of TakeJob: the job is read and stays in the queue.
TakeJob_Peek(w) ==
    /\ workers[w].pc = "receive"
    /\ queue # <<>>
    /\ workers' = [workers EXCEPT ![w] = [pc |-> "process", job |-> Some(Head(queue))]]
    /\ queue' = queue
    /\ UNCHANGED <<docs, rawBucket, procBucket, tasks, reqs, hist, faults, base, runs, signing, files, disk, server>>

\* Processor.worker: job := <-p.queue
TakeJob(w) ==
    /\ workers[w].pc = "receive"
    /\ queue # <<>>
    /\ workers' = [workers EXCEPT ![w] = [pc |-> "process", job |-> Some(Head(queue))]]
    /\ queue' = Tail(queue)
    /\ UNCHANGED <<docs, rawBucket, procBucket, tasks, reqs, hist, faults, base, runs, signing, files, disk, server>>

\* Processor.process, first half: the file is marked processing; for an
\* unknown file the job ends here.
ProcessStart(w) ==
    /\ workers[w].pc = "process"
    /\ LET f == workers[w].job[1].FileID IN
          IF f \in DOMAIN files
          THEN /\ files' = UpdateStatus(files, f, FileStatusProcessing, "processing started")
               /\ workers' = [workers EXCEPT ![w] = [@ EXCEPT !.pc = "sleep"]]
          ELSE /\ files' = files
               /\ workers' = [workers EXCEPT ![w] = Waiting]
    /\ UNCHANGED <<docs, rawBucket, procBucket, tasks, reqs, hist, faults, base, runs, signing, queue, disk, server>>

\* Processor.process, second half: after the sleep the file is marked complete
\* and the worker waits for the next job.
ProcessFinish(w) ==
    /\ workers[w].pc = "sleep"
    /\ files' = UpdateStatus(files, workers[w].job[1].FileID, FileStatusComplete,
                             "processing finished")
    /\ workers' = [workers EXCEPT ![w] = Waiting]
    /\ UNCHANGED <<docs, rawBucket, procBucket, tasks, reqs, hist, faults, base, runs, signing, queue, disk, server>>

NextLegacy ==
    \/ PersistPart
    \/ \E i \in DOMAIN reqs : Scan(i)
    \/ \E i \in DOMAIN reqs : MarkQueued(i)
    \/ \E i \in DOMAIN reqs : SubmitJob(i)
    \/ \E w \in DOMAIN workers : TakeJob(w)
    \/ \E w \in DOMAIN workers : ProcessStart(w)
    \/ \E w \in DOMAIN workers : ProcessFinish(w)

SpecLegacy == InitLegacy /\ [][NextLegacy]_vars

\* The legacy server started with the default pool: VAULTDROP_WORKERS unset,
\* so that New gets defaultWorkerCount workers.
InitPool ==
    /\ files = <<>>
    /\ disk = <<>>
    /\ queue = <<>>
    /\ reqs = <<>>
    /\ workers = [w \in WorkerIds |-> Waiting]
    /\ docs = <<>>
    /\ rawBucket = <<>>
    /\ procBucket = <<>>
    /\ tasks = <<>>
    /\ hist = <<>>
    /\ faults = 0
    /\ base = NoStore
    /\ runs = <<>>
    /\ signing = NoSigning
    /\ server = NoServer

SpecPool == InitPool /\ [][NextLegacy]_vars

\* The legacy server with its context never cancelled: the worker goroutines
\* keep running, so that a worker that can take a step eventually takes one.
SpecLegacyLive ==
    /\ InitLegacy
    /\ [][NextLegacy]_vars
    /\ \A w \in PoolIds : WF_vars(TakeJob(w) \/ ProcessStart(w) \/ ProcessFinish(w))

----------------------------------------------------------------------------
(* Shutdown: Server.Run / Server.Serve, the goroutine that calls Shutdown, main *)

\* The server as Serve starts it: the context live, the listener open, the
\* shutdown goroutine blocked on ctx.Done(), ListenAndServe serving, the
\* process alive; grace counts the seconds since Shutdown was called.
Serving ==
    [ctx |-> "live", listening |-> TRUE, shutdown |-> "waiting", serve |-> "serving",
     exited |-> FALSE, grace |-> 0]

\* The requests whose handler is running.
InFlight == {i \in DOMAIN reqs : reqs[i] = "running"}

InitShutdown ==
    /\ server = Serving
    /\ reqs = <<>>
    /\ docs = <<>>
    /\ rawBucket = <<>>
    /\ procBucket = <<>>
    /\ tasks = <<>>
    /\ workers = [w \in WorkerIds |-> Idle]
    /\ hist = <<>>
    /\ faults = 0
    /\ base = NoStore
    /\ runs = <<>>
    /\ signing = NoSigning
    /\ files = <<>>
    /\ queue = <<>>
    /\ disk = <<>>

\* The listener accepts a connection and a handler starts.
Accept ==
    /\ server.listening /\ ~server.exited
    /\ Len(reqs) < MaxRequests
    /\ reqs' = Append(reqs, "running")
    /\ UNCHANGED <<docs, rawBucket, procBucket, tasks, workers, hist, faults, base, runs, signing, files, queue, disk, server>>

\* A handler returns and its answer is written.
Finish(i) ==
    /\ ~server.exited
    /\ reqs[i] = "running"
    /\ reqs' = [reqs EXCEPT ![i] = "finished"]
    /\ UNCHANGED <<docs, rawBucket, procBucket, tasks, workers, hist, faults, base, runs, signing, files, queue, disk, server>>

\* SIGINT or SIGTERM arrives: signal.NotifyContext cancels the context.
Signal ==
    /\ ~server.exited
    /\ server.ctx = "live"
    /\ server' = [server EXCEPT !.ctx = "cancelled"]
    /\ UNCHANGED <<docs, rawBucket, procBucket, tasks, reqs, workers, hist, faults, base, runs, signing, files, queue, disk>>

\* The goroutine wakes from <-ctx.Done() and calls Shutdown with a context of
\* ShutdownGrace seconds: Shutdown closes the listener and starts to wait for
\* the connections to become idle.
BeginShutdown ==
    /\ ~server.exited
    /\ server.ctx = "cancelled" /\ server.shutdown = "waiting"
    /\ server' = [server EXCEPT !.shutdown = "draining", !.listening = FALSE, !.grace = 0]
    /\ UNCHANGED <<docs, rawBucket, procBucket, tasks, reqs, workers, hist, faults, base, runs, signing, files, queue, disk>>

\* A second of the grace period passes while Shutdown waits.
GraceTick ==
    /\ ~server.exited
    /\ server.shutdown = "draining" /\ server.grace < ShutdownGrace
    /\ server' = [server EXCEPT !.grace = @ + 1]
    /\ UNCHANGED <<docs, rawBucket, procBucket, tasks, reqs, workers, hist, faults, base, runs, signing, files, queue, disk>>

\* Shutdown returns: no handler is running any more, or its context is done.
ShutdownReturns ==
    /\ ~server.exited
    /\ server.shutdown = "draining"
    /\ InFlight = {} \/ server.grace = ShutdownGrace
    /\ server' = [server EXCEPT !.shutdown = "returned"]
    /\ UNCHANGED <<docs, rawBucket, procBucket, tasks, reqs, workers, hist, faults, base, runs, signing, files, queue, disk>>

\* ListenAndServe returns http.ErrServerClosed as soon as Shutdown has closed
\* the listener, and Run / Serve returns nil.
ServeReturns ==
    /\ ~server.exited
    /\ server.serve = "serving" /\ ~server.listening
    /\ server' = [server EXCEPT !.serve = "returned"]
    /\ UNCHANGED <<docs, rawBucket, procBucket, tasks, reqs, workers, hist, faults, base, runs, signing, files, queue, disk>>

\* main returns after Serve: the process exits and the handlers still running
\* end with it.
Exit ==
    /\ ~server.exited
    /\ server.serve = "returned"
    /\ server' = [server EXCEPT !.exited = TRUE]
    /\ reqs' = [i \in DOMAIN reqs |-> IF reqs[i] = "running" THEN "killed" ELSE reqs[i]]
    /\ UNCHANGED <<docs, rawBucket, procBucket, tasks, workers, hist, faults, base, runs, signing, files, queue, disk>>

NextShutdown ==
    \/ Accept
    \/ \E i \in DOMAIN reqs : Finish(i)
    \/ Signal
    \/ BeginShutdown
    \/ GraceTick
    \/ ShutdownReturns
    \/ ServeReturns
    \/ Exit

SpecShutdown == InitShutdown /\ [][NextShutdown]_vars

----------------------------------------------------------------------------
(* The sniff buffer of persistTemp / persistPart, byte by byte *)

\* The bytes of a file part, and the ways part.Read hands them out.
PartAlphabet == {"a", "b", "c"}
Parts == UNION {[1..n -> PartAlphabet] : n \in 0..(MaxFileSize + 1)}
SplitsOf(bytes) == {c \in ChunkSeqs : SumSeq(c) = Len(bytes)}

Min(a, b) == IF a < b THEN a ELSE b

\* Mutant of AppendSniff: the whole chunk is kept.
AppendSniff_Uncapped(sniff, buf) ==
    IF Len(sniff) < SniffLen THEN sniff \o buf ELSE sniff

\* if len(sniff) < 512 { chunk := n; if remain := 512 - len(sniff); chunk >
\* remain { chunk = remain }; sniff = append(sniff, buf[:chunk]...) }
AppendSniff(sniff, buf) ==
    IF Len(sniff) < SniffLen
    THEN sniff \o SubSeq(buf, 1, Min(Len(buf), SniffLen - Len(sniff)))
    ELSE sniff

\* One iteration of the read loop on the bytes themselves: the chunk read is
\* counted, checked against the limit, sniffed and written; io.EOF ends the
\* loop.
SniffNext(r) ==
    IF r.pending = <<>> THEN [r EXCEPT !.pc = "done"]
    ELSE LET n == Head(r.pending)
             buf == SubSeq(r.bytes, r.written + 1, r.written + n)
         IN
         IF r.written + n > MaxFileSize
         THEN [r EXCEPT !.pc = "done", !.err = Some("file exceeds limit"),
                        !.written = @ + n, !.pending = Tail(@)]
         ELSE [r EXCEPT !.written = @ + n, !.pending = Tail(@),
                        !.sniff = AppendSniff(@, buf), !.file = @ \o buf]

InitSniff ==
    /\ \E bytes \in Parts : \E c \in SplitsOf(bytes) :
          reqs = <<[pc |-> "read", bytes |-> bytes, pending |-> c, written |-> 0,
                    sniff |-> <<>>, file |-> <<>>, err |-> Null]>>
    /\ docs = <<>>
    /\ rawBucket = <<>>
    /\ procBucket = <<>>
    /\ tasks = <<>>
    /\ workers = [w \in WorkerIds |-> Idle]
    /\ hist = <<>>
    /\ faults = 0
    /\ base = NoStore
    /\ runs = <<>>
    /\ signing = NoSigning
    /\ files = <<>>
    /\ queue = <<>>
    /\ disk = <<>>
    /\ server = NoServer

SniffRead(i) ==
    /\ reqs[i].pc = "read"
    /\ reqs' = [reqs EXCEPT ![i] = SniffNext(@)]
    /\ UNCHANGED <<docs, rawBucket, procBucket, tasks, workers, hist, faults, base, runs, signing, files, queue, disk, server>>

NextSniff == \E i \in DOMAIN reqs : SniffRead(i)

SpecSniff == InitSniff /\ [][NextSniff]_vars

----------------------------------------------------------------------------
(* The temporary file of an upload: handleUpload and persistTemp, call by call *)

\* The temporary file: whether it is in the temp directory and whether the
\* handler holds it open.
NoTemp == [exists |-> FALSE, open |-> FALSE]
Created == [exists |-> TRUE, open |-> TRUE]

\* tmpFile.Close() then os.Remove(tmpFile.Name()); also the two deferred calls
\* of handleUpload, which run in this order.
CloseAndRemove(tmp) == [tmp EXCEPT !.open = FALSE, !.exists = FALSE]

\* The handler answers and returns; cleanup is whether the temporary file is
\* closed and removed on this path.
Answer(r, code, why, cleanup) ==
    [r EXCEPT !.pc = "done", !.code = code, !.reason = why,
              !.tmp = IF cleanup THEN CloseAndRemove(@) ELSE @]

\* One call of the handler from position r.pc; ok is whether the call
\* succeeds (for a read: whether part.Read returns without an error other
\* than io.EOF).
TempNext(r, ok) ==
    CASE r.pc = "createTemp" ->
            IF ok THEN [r EXCEPT !.pc = "read", !.tmp = Created]
            ELSE Answer(r, 400, Some("create temp file"), FALSE)
      [] r.pc = "read" ->
            IF ~ok THEN Answer(r, 400, Some("read file"), TRUE)
            ELSE IF r.pending = <<>>
                 THEN IF r.written = 0 THEN Answer(r, 400, Some("empty file"), TRUE)
                      ELSE [r EXCEPT !.pc = "rewind"]
            ELSE IF r.written + Head(r.pending) > MaxFileSize
                 THEN Answer(r, 400, Some("file exceeds limit"), TRUE)
            ELSE [r EXCEPT !.pc = "write", !.written = @ + Head(r.pending),
                           !.pending = Tail(@)]
      [] r.pc = "write" ->
            IF ok THEN [r EXCEPT !.pc = "read"]
            ELSE Answer(r, 400, Some("write temp file"), TRUE)
      [] r.pc = "rewind" ->
            IF ~ok THEN Answer(r, 400, Some("rewind temp file"), FALSE)
            ELSE IF DetectContentType(r.content) # "application/pdf"
                 THEN Answer(r, 400, Some("only PDF files supported"), TRUE)
            ELSE [r EXCEPT !.pc = "uploadToStorage"]
      [] r.pc = "uploadToStorage" ->
            IF ok THEN [r EXCEPT !.pc = "create"]
            ELSE Answer(r, 500, Some("failed to store file"), TRUE)
      [] r.pc = "create" ->
            IF ok THEN [r EXCEPT !.pc = "enqueue"]
            ELSE Answer(r, 500, Some("failed to store metadata"), TRUE)
      [] r.pc = "enqueue" ->
            IF ok THEN Answer(r, 202, Null, TRUE)
            ELSE Answer(r, 500, Some("failed to queue job"), TRUE)
      [] OTHER -> r

InitTemp ==
    /\ \E content \in Contents, c \in ChunkSeqs :
          reqs = <<[pc |-> "createTemp", code |-> 0, reason |-> Null, content |-> content,
                    pending |-> c, written |-> 0, tmp |-> NoTemp]>>
    /\ docs = <<>>
    /\ rawBucket = <<>>
    /\ procBucket = <<>>
    /\ tasks = <<>>
    /\ workers = [w \in WorkerIds |-> Idle]
    /\ hist = <<>>
    /\ faults = 0
    /\ base = NoStore
    /\ runs = <<>>
    /\ signing = NoSigning
    /\ files = <<>>
    /\ queue = <<>>
    /\ disk = <<>>
    /\ server = NoServer

\* The handler of request i makes its next call.
TempStep(i) ==
    /\ reqs[i].pc # "done"
    /\ \E ok \in BOOLEAN : reqs' = [reqs EXCEPT ![i] = TempNext(@, ok)]
    /\ UNCHANGED <<docs, rawBucket, procBucket, tasks, workers, hist, faults, base, runs, signing, files, queue, disk, server>>

NextTemp == \E i \in DOMAIN reqs : TempStep(i)

SpecTemp == InitTemp /\ [][NextTemp]_vars

----------------------------------------------------------------------------
(* Claims on sequential deliveries (SpecSeq) *)

\* What a reader sees of the document and its artifact in store s.
Left(s) == [status |-> s.docs[TheDoc].status,
            processedKey |-> s.docs[TheDoc].processedKey,
            content |-> s.docs[TheDoc].content,
            proc |-> s.proc]

\* One uninterrupted run under plan f, started from the store at base.
OneRunFromBase(f) ==
    RunHandler(ThePayload, [docs |-> base.docs, raw |-> rawBucket, proc |-> base.proc], f)

TwoRunsSamePlan ==
    /\ Len(runs) = 2
    /\ runs[1].kind = "run" /\ runs[2].kind = "run"
    /\ runs[1].plan = runs[2].plan

\* C2: two runs of handleExtract in sequence on the same payload, with the same
\* step failing (or none) in both, leave the row's status, processedKey and
\* content and the processed object as a single such run leaves them.
C2_TwoRunsLikeOne ==
    TwoRunsSamePlan => Left(Store) = Left(OneRunFromBase(runs[1].plan))

C2_Witness ==
    /\ TwoRunsSamePlan
    /\ runs[1].plan.failAt = "none"
    /\ docs[TheDoc].status = StatusCompleted
    /\ docs[TheDoc].content # NoText

CrashThenRun ==
    /\ Len(runs) = 2
    /\ runs[1].kind = "crash" /\ runs[2].kind = "run"

LastRun == runs[Len(runs)]

\* The latest delivery ran to its return and its download, extraction,
\* processed upload or completion update failed.
BodyFailed ==
    /\ runs # <<>>
    /\ LastRun.kind = "run"
    /\ LastRun.plan.failAt # "markProcessing"
    /\ \/ LastRun.plan.failAt # "none"
       \/ ExtractText(rawBucket[ThePayload.ObjectKey]).err # Null

\* C11: when download, extraction, processed upload or the completion update
\* fails in a handler run, the handler returns an error and, at its return, the
\* row reads failed with errorMessage equal to the text of that error.
C11_FailureIsRecorded ==
    BodyFailed => /\ LastRun.err # Null
                  /\ docs[TheDoc].status = StatusFailed
                  /\ docs[TheDoc].errorMessage = LastRun.err

----------------------------------------------------------------------------
(* Claims on the signed URL issuer (SpecSign) *)

\* The validation made presents the id and the signature of the token and its
\* expiry in decimal.
ChecksToken ==
    /\ signing.check # Null
    /\ Check.id = Token.id
    /\ Check.expires = FormatInt(Token.exp)
    /\ Check.sig = Token.sig

\* C18: Validate(id, decimal string of expiry, Sign(id, expiry)) is true for
\* every id and expiry, and Sign gives the signature it gave before when
\* called again with the same id and expiry.
C18_SignedValidates ==
    /\ signing.token = Null
          => \A id \in FileIDs, exp \in Expiries :
                Validate(signing.signer, id, FormatInt(exp), Sign(signing.signer, id, exp))
    /\ ChecksToken => Check.ok
    /\ signing.token # Null => Sign(signing.signer, Token.id, Token.exp) = Token.sig

C18_Witness ==
    /\ ChecksToken
    /\ Check.ok
    /\ Len(Check.expires) > 1
    /\ Check.at > 0

\* C19 as stated: with the signature issued for id and expiry, Validate is
\* false for any other id and for any other expires string; for the id and
\* expires string signed it is false for any other signature; and it is false
\* for an expires string that is not an integer.
C19_MutatedIsRejected ==
    signing.check # Null =>
        /\ (Check.sig = Token.sig
               /\ (Check.id # Token.id \/ Check.expires # FormatInt(Token.exp)))
              => ~Check.ok
        /\ (Check.sig # Token.sig
               /\ Check.id = Token.id /\ Check.expires = FormatInt(Token.exp))
              => ~Check.ok
        /\ ParseInt(Check.expires).err => ~Check.ok

\* C19 amended: the same, where another expires string is one that does not
\* parse to the expiry signed.
C19_OtherValueIsRejected ==
    signing.check # Null =>
        /\ (Check.sig = Token.sig
               /\ (Check.id # Token.id \/ ParseInt(Check.expires).err
                     \/ ParseInt(Check.expires).val # Token.exp))
              => ~Check.ok
        /\ (Check.sig # Token.sig
               /\ Check.id = Token.id /\ Check.expires = FormatInt(Token.exp))
              => ~Check.ok
        /\ ParseInt(Check.expires).err => ~Check.ok

C19_Witness ==
    /\ signing.check # Null
    /\ Check.sig = Token.sig
    /\ Check.id = Token.id
    /\ ~ParseInt(Check.expires).err
    /\ ParseInt(Check.expires).val # Token.exp
    /\ ~Check.ok

\* C20: Validate is false when the expiry is not later than the time of the
\* call, whatever the signature.
C20_ExpiredIsRejected ==
    (/\ signing.check # Null
     /\ ~ParseInt(Check.expires).err
     /\ ParseInt(Check.expires).val <= Check.at)
        => ~Check.ok

----------------------------------------------------------------------------
(* Claims on the intake (SpecUpload) *)

\* The bytes of the file part of request r, read or not, and their number.
FilePart(r) == r.got \o r.pending
FileSize(r) == SumSeq(FilePart(r))

\* Request i has left no raw object, no row and no job.
NothingStored(i) ==
    /\ i \notin DOMAIN docs
    /\ i \notin DOMAIN tasks
    /\ \A k \in DOMAIN rawBucket : k.dir # i

\* Request i has its raw object, its row and its job.
AllStored(i) ==
    /\ i \in DOMAIN docs
    /\ i \in DOMAIN tasks
    /\ DocOf(i).ObjectKey \in DOMAIN rawBucket

\* C14: an upload whose file part is larger than the maximum is answered 400,
\* the read that takes the byte count past the maximum is the last read of the
\* part, and the request leaves no raw object, no row and no job.
C14_OversizeRejectedAtOnce ==
    \A i \in DOMAIN reqs :
        LET r == reqs[i] IN
        r.multipart = "ok" =>
            /\ SumSeq(r.got) > MaxFileSize
                  => /\ r.pc = "done" /\ r.code = 400
                     /\ SumSeq(SubSeq(r.got, 1, Len(r.got) - 1)) <= MaxFileSize
            /\ FileSize(r) > MaxFileSize
                  => /\ NothingStored(i)
                     /\ r.pc = "done" => r.code = 400

C14_Witness ==
    \E i \in DOMAIN reqs :
        /\ reqs[i].pc = "done" /\ reqs[i].code = 400
        /\ reqs[i].reason = Some("file exceeds limit")
        /\ SumSeq(reqs[i].got) > MaxFileSize
        /\ reqs[i].pending # <<>>

\* C15: an upload whose file part does not sniff as a PDF, or is empty, is
\* answered 400 and leaves no raw object, no row and no job.
C15_NonPdfOrEmptyRejected ==
    \A i \in DOMAIN reqs :
        LET r == reqs[i] IN
        (r.multipart = "ok" /\ (r.content = "plain" \/ FileSize(r) = 0))
            => /\ NothingStored(i)
               /\ r.pc \in {"open", "read", "done"}
               /\ r.pc = "done" => r.code = 400

C15_Witness ==
    \E i \in DOMAIN reqs :
        /\ reqs[i].pc = "done" /\ reqs[i].code = 400
        /\ reqs[i].content = "plain"
        /\ reqs[i].reason = Some("only PDF files supported")

\* The upload passes every check of handleUpload: multipart with a file part
\* that is a non-empty PDF of at most MaxFileSize bytes.
InputValid(r) ==
    /\ r.multipart = "ok"
    /\ FileSize(r) \in 1..MaxFileSize
    /\ r.content # "plain"

\* The body of the request is within the limit of the body reader.
BodyFits(r) == r.overhead + FileSize(r) <= BodyLimit

SizeRejected(r) ==
    /\ r.pc = "done" /\ r.code = 400
    /\ r.reason \in {Some("file exceeds limit"), Some("read file")}

----------------------------------------------------------------------------
(* Claims on the pipeline (Spec) *)

\* C1: handleUpload uploads the raw object, then creates the row, then enqueues
\* the job, each only after the previous one succeeded; so every enqueued job
\* names a document id that has a row and an object key that has a raw object.
C1_JobsReferToStoredDocuments ==
    /\ \A d \in DOMAIN tasks :
          /\ tasks[d].payload.DocumentID \in DOMAIN docs
          /\ tasks[d].payload.ObjectKey \in DOMAIN rawBucket
          /\ docs[tasks[d].payload.DocumentID].objectKey = tasks[d].payload.ObjectKey
    /\ \A d \in DOMAIN docs : docs[d].objectKey \in DOMAIN rawBucket
    /\ \A i \in DOMAIN reqs :
          /\ reqs[i].pc = "create" => DocOf(i).ObjectKey \in DOMAIN rawBucket
          /\ reqs[i].pc = "enqueue" => i \in DOMAIN docs
          /\ reqs[i].code = 202 => i \in DOMAIN tasks

C1_Witness ==
    \E d \in DOMAIN tasks : tasks[d].state = "active" /\ reqs[d].code = 202

\* C4: a row with processedKey set or content non-empty has status completed.
C4_ResultImpliesCompleted ==
    \A d \in DOMAIN docs :
        (docs[d].processedKey # Null \/ docs[d].content # NoText)
            => docs[d].status = StatusCompleted

\* C5: a completed row has its processedKey set and a non-empty content.
C5_CompletedHasResult ==
    \A d \in DOMAIN docs :
        docs[d].status = StatusCompleted
            => docs[d].processedKey # Null /\ docs[d].content # NoText

\* C6: once a row reads completed, it reads completed with the same
\* processedKey and content ever after.
C6_CompletedIsStable ==
    [][\A d \in DOMAIN docs :
          docs[d].status = StatusCompleted
              => /\ docs'[d].status = StatusCompleted
                 /\ docs'[d].processedKey = docs[d].processedKey
                 /\ docs'[d].content = docs[d].content]_vars

\* C7 as stated: after the 202 answer the row reads queued.
C7_QueuedAfterAccept ==
    \A i \in DOMAIN reqs : reqs[i].code = 202 => (i \in DOMAIN docs /\ docs[i].status = StatusQueued)

\* Some worker was handed document d's job.
Claimed(d) == d \in DOMAIN tasks /\ (tasks[d].state # "pending" \/ tasks[d].retried > 0)

\* C7 amended: after the 202 answer the row exists and its job is enqueued, and
\* the row reads queued unless a worker has already been handed the job.
C7_QueuedUntilClaimed ==
    \A i \in DOMAIN reqs :
        reqs[i].code = 202
            => /\ i \in DOMAIN docs
               /\ i \in DOMAIN tasks
               /\ (docs[i].status # StatusQueued => Claimed(i))

C7_Witness ==
    \E i \in DOMAIN reqs :
        /\ reqs[i].code = 202
        /\ docs[i].status = StatusQueued
        /\ ~Claimed(i)

\* C8: completed or failed is written to a row only after processing was
\* written to it.
C8_ProcessingWrittenFirst ==
    \A d \in DOMAIN hist :
        (hist[d].written \cap Terminal # {}) => StatusProcessing \in hist[d].written

\* C9: the MarkProcessing of one delivery does not overwrite the completed or
\* failed that another delivery of the job wrote while this one was running.
C9_ProcessingKeepsTerminal ==
    [][\A w \in WorkerIds :
          LET d == workers[w].doc IN
          (/\ workers[w].pc = "markProcessing"
           /\ workers'[w].pc = "download"
           /\ docs[d].status \in Terminal
           /\ w \in hist[d].during)
              => docs'[d].status = docs[d].status]_vars

\* The status changes of the lifecycle.
Lifecycle == {<<StatusQueued, StatusProcessing>>, <<StatusProcessing, StatusCompleted>>,
              <<StatusProcessing, StatusFailed>>, <<StatusFailed, StatusProcessing>>,
              <<StatusProcessing, StatusProcessing>>}

\* C10: a row is created queued and every change of its status is one of the
\* lifecycle's.
C10_OnlyLifecycleChanges ==
    [][\A d \in DOMAIN docs' :
          IF d \in DOMAIN docs
          THEN docs'[d].status # docs[d].status
                  => <<docs[d].status, docs'[d].status>> \in Lifecycle
          ELSE docs'[d].status = StatusQueued]_vars

\* The number of times the handler was started for document d's job: every
\* execution that ended was counted by the queue, a running one is one more.
Executions(d) ==
    IF tasks[d].state = "pending" THEN tasks[d].retried ELSE tasks[d].retried + 1

\* C12: the handler is executed at most 5 times in all, the first attempt
\* included, for a job enqueued by EnqueueExtract.
C12_AtMostFiveExecutions ==
    \A d \in DOMAIN tasks : Executions(d) <= MaxRetry

\* C13: once the queue has abandoned a job, the row of its document reads
\* failed (not processing, not queued).
C13_AbandonedIsFailed ==
    \A d \in DOMAIN tasks : tasks[d].state = "archived" => docs[d].status = StatusFailed

\* C17: when EnqueueExtract fails after the row was created, the request is
\* answered 500 and the row stays as Create left it, status queued: the document
\* has no job and no worker is ever handed it.
C17_UnqueuedStaysQueued ==
    \A i \in DOMAIN reqs :
        /\ (reqs[i].pc = "done" /\ i \in DOMAIN docs /\ i \notin DOMAIN tasks)
              => reqs[i].code = 500
        /\ (reqs[i].code = 500 /\ i \in DOMAIN docs)
              => /\ docs[i] = CreateRow(<<>>, DocOf(i))[i]
                 /\ docs[i].status = StatusQueued
                 /\ \A w \in WorkerIds : workers[w].pc # "idle" => workers[w].doc # i

C17_Witness ==
    \E i \in DOMAIN reqs :
        /\ reqs[i].pc = "done" /\ reqs[i].code = 500
        /\ i \in DOMAIN docs /\ i \notin DOMAIN tasks
        /\ docs[i].status = StatusQueued

\* The ids a client may ask for: those of the requests and one that was never
\* given out.
AskedIds == 0..MaxDocs

\* C22: GET /documents/{id}/text answers 404 for an id without a row, 200 with
\* the stored content for a completed document, and 202 for a document in any
\* other status.
C22_TextAnswers ==
    \A id \in AskedIds :
        LET a == handleDocumentText(docs, id, TRUE) IN
        IF id \notin DOMAIN docs THEN a.code = 404
        ELSE IF docs[id].status = StatusCompleted
             THEN a.code = 200 /\ a.body = Some(docs[id].content)
        ELSE a.code = 202

\* C23: GET /documents/{id}/processed-url answers 404 for an id without a row
\* and for a document without processedKey, and answers 200 only for a document
\* whose status is completed and whose processedKey is set.
C23_ProcessedUrlAnswers ==
    \A id \in AskedIds, signed \in BOOLEAN :
        LET a == handleProcessedURL(docs, id, TRUE, signed) IN
        /\ (id \notin DOMAIN docs \/ docs[id].processedKey = Null) => a.code = 404
        /\ a.code = 200 => /\ docs[id].status = StatusCompleted
                           /\ docs[id].processedKey # Null

\* C24: for a row that reads completed, the object under its processedKey in
\* the processed bucket holds the row's content, and both are what ExtractText
\* gives for the raw object under the row's objectKey.
C24_CompletedAgrees ==
    \A d \in DOMAIN docs :
        docs[d].status = StatusCompleted =>
            /\ docs[d].processedKey # Null
            /\ docs[d].processedKey[1] \in DOMAIN procBucket
            /\ procBucket[docs[d].processedKey[1]] = docs[d].content
            /\ docs[d].objectKey \in DOMAIN rawBucket
            /\ ExtractText(rawBucket[docs[d].objectKey]).err = Null
            /\ ExtractText(rawBucket[docs[d].objectKey]).text = docs[d].content

C24_Witness ==
    \E d \in DOMAIN docs :
        /\ docs[d].status = StatusCompleted
        /\ docs[d].content # NoText
        /\ docs[d].processedKey # Null
        /\ docs[d].processedKey[1] \in DOMAIN procBucket
        /\ procBucket[docs[d].processedKey[1]] = docs[d].content

\* The objects of the processed bucket that belong to document d: their key
\* starts with the document's id.
ProcessedObjectsOf(d) == {k \in DOMAIN procBucket : k.dir = d}

C26_RetryKeepsErrorMessage ==
    [][\A d \in DOMAIN docs :
          (/\ docs[d].errorMessage # Null
           /\ docs[d].status # StatusProcessing
           /\ d \in DOMAIN docs'
           /\ docs'[d].status = StatusProcessing)
              => docs'[d].errorMessage = docs[d].errorMessage]_vars

\* The fields of a row that no status update may touch.
Identity(row) == [id |-> row.id, fileName |-> row.fileName, objectKey |-> row.objectKey]

\* Store e has the rows of store d, each with its identity.
SameRows(d, e) ==
    /\ DOMAIN e = DOMAIN d
    /\ \A x \in DOMAIN d : Identity(e[x]) = Identity(d[x])

C36_ResultKeptByRerun ==
    /\ [](\A d \in DOMAIN docs :
            /\ MarkProcessing(docs, d)[d].processedKey = docs[d].processedKey
            /\ MarkProcessing(docs, d)[d].content = docs[d].content
            /\ MarkFailed(docs, d, "extract text")[d].processedKey = docs[d].processedKey
            /\ MarkFailed(docs, d, "extract text")[d].content = docs[d].content
            /\ \A k \in DOMAIN procBucket :
                  /\ MarkCompleted(docs, d, k, procBucket[k])[d].processedKey = Some(k)
                  /\ MarkCompleted(docs, d, k, procBucket[k])[d].content = procBucket[k])
    /\ [][\A d \in DOMAIN docs :
            (d \in DOMAIN docs' /\ docs'[d].status \in {StatusProcessing, StatusFailed})
                => /\ docs'[d].processedKey = docs[d].processedKey
                   /\ docs'[d].content = docs[d].content]_vars

\* A run after a successful one has marked the row processing or failed, and
\* the row still has the result of the successful run.
C36_Witness ==
    \E d \in DOMAIN docs :
        /\ docs[d].status \in {StatusProcessing, StatusFailed}
        /\ docs[d].processedKey # Null
        /\ docs[d].content # NoText
        /\ docs[d].processedKey[1] \in DOMAIN procBucket
        /\ procBucket[docs[d].processedKey[1]] = docs[d].content

----------------------------------------------------------------------------
(* Claims on concurrent deliveries without call failures (SpecPair) *)

\* Every delivery of document d's job that started has run its handler to the
\* return.
Returned(d) == \A w \in Running(d) : workers[w].pc = "return"

\* C37: when the deliveries of a job for a parsable PDF overlap (the lease was
\* lost while the handler ran) and no remote call fails, then, however their
\* steps interleave, once every delivery has run to its return the row reads
\* completed, its content is the text ExtractText gives for the raw object, and
\* the processed object holds that same text.
C37_ConcurrentDeliveriesAgree ==
    \A d \in DOMAIN docs :
        (/\ ExtractText(rawBucket[docs[d].objectKey]).err = Null
         /\ docs[d].status # StatusQueued
         /\ Returned(d))
        => /\ docs[d].status = StatusCompleted
           /\ docs[d].content = ExtractText(rawBucket[docs[d].objectKey]).text
           /\ docs[d].processedKey # Null
           /\ docs[d].processedKey[1] \in DOMAIN procBucket
           /\ procBucket[docs[d].processedKey[1]] = docs[d].content

C37_Witness ==
    \E d \in DOMAIN docs :
        /\ ExtractText(rawBucket[docs[d].objectKey]).err = Null
        /\ Running(d) = WorkerIds
        /\ Returned(d)
        /\ hist[d].during # {}
        /\ docs[d].status = StatusCompleted
        /\ docs[d].content = <<"hello">>

----------------------------------------------------------------------------
(* Claims on the pipeline with the workers kept running (SpecLive) *)

StatusOf(d) == IF d \in DOMAIN docs THEN docs[d].status ELSE "none"

Parsable(d) == d \in DOMAIN reqs /\ ExtractText(reqs[d].content).err = Null

\* C28: once the job of an accepted upload is in the queue, its document
\* reaches a terminal status, completed or failed, and is in a terminal status
\* again and again: it does not read queued or processing for ever; and the
\* document of a parsable PDF reads completed unless a remote call failed or a
\* lease expired.
C28_ReachesTerminal ==
    \A d \in 1..MaxDocs :
        /\ (d \in DOMAIN tasks) ~> (StatusOf(d) \in Terminal)
        /\ (d \in DOMAIN tasks /\ Parsable(d))
              ~> (StatusOf(d) = StatusCompleted \/ faults > 0)

----------------------------------------------------------------------------
(* Claims on the legacy download (SpecDownload) *)

\* What a download request carried, read as the server reads it.
ExpiryOf(r) == ParseInt(r.expires)
Expired(r) == ~ExpiryOf(r).err /\ ExpiryOf(r).val < r.at
Matching(r) ==
    ~ExpiryOf(r).err /\ r.signature = Sign(signing.signer, r.file, ExpiryOf(r).val)
WellFormed(r) ==
    r.file # Absent /\ r.expires # Absent /\ r.signature # Absent /\ ~ExpiryOf(r).err

\* C21 as stated: bytes are served only to a request whose expiry has not
\* passed when it is made and whose signature is Sign(file, expires); and every
\* request whose expiry has passed or whose signature is another one is
\* answered 401 without bytes.
C21_ExpiredOrForgedGets401 ==
    \A i \in DOMAIN reqs :
        /\ reqs[i].body # Null => ~Expired(reqs[i]) /\ Matching(reqs[i])
        /\ (Expired(reqs[i]) \/ ~Matching(reqs[i]))
              => reqs[i].code = 401 /\ reqs[i].body = Null

\* C21 amended: bytes are served only to a request whose expiry has not passed
\* and whose signature is Sign(file, expires); a request that carries the
\* three parameters and an integer expiry, and whose expiry has passed or whose
\* signature is another one, is answered 401 without bytes; a request that
\* lacks a parameter or whose expires is no integer is answered 400 without
\* bytes.
C21_WellFormedExpiredOrForgedGets401 ==
    \A i \in DOMAIN reqs :
        /\ reqs[i].body # Null
              => /\ ~Expired(reqs[i]) /\ Matching(reqs[i])
                 /\ reqs[i].code = 200
        /\ (WellFormed(reqs[i]) /\ (Expired(reqs[i]) \/ ~Matching(reqs[i])))
              => reqs[i].code = 401 /\ reqs[i].body = Null
        /\ ~WellFormed(reqs[i]) => reqs[i].code = 400 /\ reqs[i].body = Null

\* The link of a file on disk, presented as issued after its expiry has passed,
\* is answered 401.
C21_Witness ==
    \E i \in DOMAIN reqs :
        /\ signing.token # Null
        /\ reqs[i].file = Token.id
        /\ reqs[i].expires = FormatInt(Token.exp)
        /\ reqs[i].signature = Token.sig
        /\ reqs[i].at > Token.exp
        /\ PathOf(Token.id) \in DOMAIN disk
        /\ reqs[i].code = 401

----------------------------------------------------------------------------
(* Claims on the legacy pipeline (SpecLegacy) *)

\* The moves of a file's status the README's lifecycle allows.
LifecycleMoves ==
    {<<FileStatusUploaded, FileStatusScanned>>, <<FileStatusScanned, FileStatusQueued>>,
     <<FileStatusQueued, FileStatusProcessing>>, <<FileStatusProcessing, FileStatusComplete>>,
     <<FileStatusUploaded, FileStatusRejected>>, <<FileStatusQueued, FileStatusFailed>>}

\* The files a job in the queue or in a worker's hands names.
JobFiles ==
    {queue[n].FileID : n \in DOMAIN queue}
        \cup {workers[w].job[1].FileID : w \in {v \in PoolIds : workers[v].job # Null}}

\* C30: a record appears with status uploaded; every change of a file's status
\* is one of uploaded to scanned, scanned to queued, queued to processing,
\* processing to complete, uploaded to rejected, queued to failed; and a
\* rejected file was never submitted, is in no job and stays rejected.
C30_LegacyLifecycle ==
    /\ [][/\ \A f \in DOMAIN files :
                /\ f \in DOMAIN files'
                /\ \/ files'[f].Status = files[f].Status
                   \/ <<files[f].Status, files'[f].Status>> \in LifecycleMoves
          /\ \A g \in DOMAIN files' \ DOMAIN files :
                files'[g].Status = FileStatusUploaded]_vars
    /\ [](\A i \in DOMAIN reqs :
            (reqs[i].file \in DOMAIN files /\ files[reqs[i].file].Status = FileStatusRejected)
                => ~reqs[i].submitted /\ reqs[i].file \notin JobFiles)

\* One file was dropped by a full queue and another went the whole way.
C30_Witness ==
    /\ \E f \in DOMAIN files :
          files[f].Status = FileStatusFailed /\ files[f].Message = "processing queue full"
    /\ \E f \in DOMAIN files : files[f].Status = FileStatusComplete
    /\ \E f \in DOMAIN files : files[f].Status = FileStatusQueued

\* C31: Submit never blocks its caller: a handler that has reached Submit can
\* always take its step; when the queue holds QueueCap = 4 x workers jobs the
\* job is dropped (the queue stays as it was) and the file, and only the file,
\* is marked failed; otherwise the job is appended to the queue and no file's
\* status changes.
C31_SubmitNeverBlocks ==
    /\ [](\A i \in DOMAIN reqs : reqs[i].pc = "submit" => ENABLED SubmitJob(i))
    /\ [][\A i \in DOMAIN reqs :
            (reqs[i].pc = "submit" /\ reqs'[i].pc = "done") =>
                LET f == reqs[i].file IN
                IF Len(queue) = PoolSize * 4
                THEN /\ queue' = queue
                     /\ files'[f].Status = FileStatusFailed
                     /\ \A g \in DOMAIN files \ {f} : files'[g] = files[g]
                ELSE /\ Len(queue) < PoolSize * 4
                     /\ queue' = Append(queue, Job(f))
                     /\ files' = files]_vars

\* A job was dropped by a queue that holds its capacity.
C31_Witness ==
    /\ Len(queue) = PoolSize * 4
    /\ \E i \in DOMAIN reqs :
          /\ reqs[i].pc = "done" /\ reqs[i].submitted
          /\ files[reqs[i].file].Status = FileStatusFailed
          /\ files[reqs[i].file].Message = "processing queue full"
    /\ \E i \in DOMAIN reqs :
          reqs[i].submitted /\ files[reqs[i].file].Status = FileStatusQueued

\* The files that read processing.
Processing == {f \in DOMAIN files : files[f].Status = FileStatusProcessing}

\* C35: at every moment the queue holds at most 4 x workers jobs, at most
\* workers files are being processed, each of them in the hands of one worker,
\* and no two workers hold the same job.
C35_QueueAndPoolBounded ==
    /\ Len(queue) <= PoolSize * 4
    /\ Cardinality(Processing) <= PoolSize
    /\ \A f \in Processing :
          Cardinality({w \in PoolIds : workers[w].job = Some(Job(f))}) = 1
    /\ \A v, w \in PoolIds :
          (v # w /\ workers[v].job # Null) => workers[v].job # workers[w].job

\* The queue is full while every worker is processing a file.
C35_Witness ==
    /\ Len(queue) = PoolSize * 4
    /\ Cardinality(Processing) = PoolSize
    /\ \A w \in PoolIds : workers[w].pc = "sleep"

----------------------------------------------------------------------------
(* Claims on the legacy processor with the default pool (SpecPool) *)

\* The positions of the queue that hold the job of file f, and the workers that
\* hold it.
InQueue(f) == {k \in DOMAIN queue : queue[k] = Job(f)}
HeldBy(f) == {w \in DOMAIN workers : workers[w].job = Some(Job(f))}

----------------------------------------------------------------------------
(* Claims on the legacy pipeline with the workers kept running (SpecLegacyLive) *)

\* Upload i was answered 202 (the body of that answer reads status queued).
Answered202(i) == i \in DOMAIN reqs /\ reqs[i].code = 202

\* The file of upload i reads the given status.
FileReads(i, status) ==
    /\ i \in DOMAIN reqs
    /\ reqs[i].file \in DOMAIN files
    /\ files[reqs[i].file].Status = status

\* C39: with the workers running for ever, the file of every upload that was
\* answered 202 with status queued eventually reads complete, however many
\* uploads run at once.
C39_AnsweredQueuedCompletes ==
    \A i \in 1..MaxUploads : Answered202(i) ~> FileReads(i, FileStatusComplete)

----------------------------------------------------------------------------
(* Claims on shutdown (SpecShutdown) *)

\* C29: once Shutdown has been called after the signal, no new request is
\* accepted; and Run / Serve has not returned, nor the process exited, while a
\* request is still in flight and the grace period of ShutdownGrace seconds has
\* not expired.
C29_ServeWaitsForInFlight ==
    /\ [][(server.ctx = "cancelled" /\ server.shutdown # "waiting")
             => Len(reqs') = Len(reqs)]_vars
    /\ []((server.serve = "returned" \/ server.exited)
             => (\A i \in DOMAIN reqs : reqs[i] = "finished") \/ server.grace = ShutdownGrace)

----------------------------------------------------------------------------
(* Claims on the sniff buffer (SpecSniff) *)

----------------------------------------------------------------------------
(* Claims on the temporary file (SpecTemp) *)

\* C34: on every path by which the intake handler returns, the temporary file
\* of the upload is closed and is no longer in the temp directory.
C34_TempFileGone ==
    \A i \in DOMAIN reqs :
        reqs[i].pc = "done" => ~reqs[i].tmp.exists /\ ~reqs[i].tmp.open

====
